---- MODULE Spec2Model ----
(***************************************************************************)
(* Farm drone inspection simulator: the command surface of backend/app.py  *)
(* (deploy / stall / abort handlers running on concurrent request threads) *)
(* and the mission task run_drone_simulation it starts on a background     *)
(* thread, sharing the process-wide DroneSimulatorState and the pybullet   *)
(* connection; and the mission task run_drone_simulation_flask of          *)
(* backend/drone_sweeper.py behind the same command surface.               *)
(*                                                                         *)
(* Units.  Time is counted in control ticks (CTRL_TIMESTEP) and lengths in *)
(* lattice cells; one cell is the distance the virtual reference covers in *)
(* one tick at CRUISE_SPEED.  Points are <<x, y, z>> triples of integers.  *)
(* Floating point vectors are represented on this lattice with            *)
(* round-to-nearest; comparisons of norms are made on squared norms and    *)
(* are exact for lattice points.  The remaining lengths and durations of   *)
(* the program (hover altitude, sweep step, dwell time, tolerances) are    *)
(* given in these units by the bounds below, smaller than the program's    *)
(* own values so that a mission is a few dozen ticks long.                 *)
(***************************************************************************)
EXTENDS Integers, Sequences, FiniteSets, TLC

\* ------------------------------------------------------------------ bounds
\* Events of the environment over a run (API requests, a loss of the physics
\* server, a disturbance of the drone), and mission threads started over a run.
MaxEvents == 3
MaxThreads == 2
\* HOVER_ALTITUDE (1.0 m), SWEEP_STEP (0.75 m), WAIT_TIME_AT_CORNER (1.5 s).
HOVER_ALTITUDE == 3
SWEEP_STEP == 1
WAIT_TIME_AT_CORNER == 1
\* The literals 0.05 (arrival tolerance), 0.2 (tracking tolerance),
\* 0.05 (landing height) and 0.1 (height the drone is loaded at).
ARRIVE_TOL == 1
TRACK_TOL == 1
LAND_Z == 1
START_Z == 2
\* drone_sweeper.py: the distance (1.0 m) of the start position from the
\* field's min corner.
START_MARGIN == 1

\* ------------------------------------------------------- program constants
CTRL_TIMESTEP == 1
CRUISE_SPEED == 1
SIM_HZ == 240
CTRL_HZ == 48
SIM_STEPS == SIM_HZ \div CTRL_HZ

\* ------------------------------------------------------------------ vectors
VAdd(a, b) == <<a[1] + b[1], a[2] + b[2], a[3] + b[3]>>
VSub(a, b) == <<a[1] - b[1], a[2] - b[2], a[3] - b[3]>>
VScale(a, k) == <<a[1] * k, a[2] * k, a[3] * k>>
Zeros3 == <<0, 0, 0>>
\* np.linalg.norm(v) ** 2
NormSq(v) == v[1] * v[1] + v[2] * v[2] + v[3] * v[3]
Abs(n) == IF n < 0 THEN -n ELSE n
Sign(n) == IF n < 0 THEN -1 ELSE IF n > 0 THEN 1 ELSE 0
\* a / sqrt(s) rounded to the nearest integer (a >= 0, s > 0).
RoundDivSqrt(a, s) ==
    CHOOSE k \in 0..a :
        /\ (k = 0 \/ (2 * k - 1) * (2 * k - 1) * s <= 4 * a * a)
        /\ (2 * k + 1) * (2 * k + 1) * s > 4 * a * a
\* direction * CRUISE_SPEED, with direction = vector_to_goal / dist_to_goal
CruiseVelocity(vector_to_goal) ==
    LET s == NormSq(vector_to_goal)
        c(i) == Sign(vector_to_goal[i])
                  * RoundDivSqrt(Abs(vector_to_goal[i]) * CRUISE_SPEED, s)
    IN  <<c(1), c(2), c(3)>>

\* ------------------------------------------------------------------ planner
\* The loop of lines 237-250 without `going_right = not going_right`
RECURSIVE SweepRows_OneDirection(_, _, _, _, _, _, _)
SweepRows_OneDirection(current_y, going_right, x_min, x_max, y_max, z_hover, sweep_step) ==
    IF current_y > y_max THEN <<>>
    ELSE LET x_start == IF going_right THEN x_min ELSE x_max
             x_end == IF going_right THEN x_max ELSE x_min
             next_y == current_y + sweep_step
             row == << <<x_start, current_y, z_hover>>, <<x_end, current_y, z_hover>> >>
             hop == IF next_y <= y_max + sweep_step
                    THEN << <<x_end, next_y, z_hover>> >> ELSE <<>>
         IN  row \o hop \o SweepRows_OneDirection(next_y, going_right, x_min, x_max,
                                                  y_max, z_hover, sweep_step)

\* The loop of lines 237-250 entered only while current_y < y_max
RECURSIVE SweepRows_StrictLoop(_, _, _, _, _, _, _)
SweepRows_StrictLoop(current_y, going_right, x_min, x_max, y_max, z_hover, sweep_step) ==
    IF current_y >= y_max THEN <<>>
    ELSE LET x_start == IF going_right THEN x_min ELSE x_max
             x_end == IF going_right THEN x_max ELSE x_min
             next_y == current_y + sweep_step
             row == << <<x_start, current_y, z_hover>>, <<x_end, current_y, z_hover>> >>
             hop == IF next_y <= y_max + sweep_step
                    THEN << <<x_end, next_y, z_hover>> >> ELSE <<>>
         IN  row \o hop \o SweepRows_StrictLoop(next_y, ~going_right, x_min, x_max,
                                                y_max, z_hover, sweep_step)

RECURSIVE SweepRows(_, _, _, _, _, _, _)
SweepRows(current_y, going_right, x_min, x_max, y_max, z_hover, sweep_step) ==
    IF current_y > y_max THEN <<>>
    ELSE LET x_start == IF going_right THEN x_min ELSE x_max
             x_end == IF going_right THEN x_max ELSE x_min
             next_y == current_y + sweep_step
             row == << <<x_start, current_y, z_hover>>, <<x_end, current_y, z_hover>> >>
             hop == IF next_y <= y_max + sweep_step
                    THEN << <<x_end, next_y, z_hover>> >> ELSE <<>>
         IN  row \o hop \o SweepRows(next_y, ~going_right, x_min, x_max, y_max,
                                     z_hover, sweep_step)

get_sweep_waypoints(field_min, field_max, z_hover, sweep_step) ==
    << <<0, 0, z_hover>>, <<field_min[1], field_min[2], z_hover>> >>
    \o SweepRows(field_min[2], TRUE, field_min[1], field_max[1], field_max[2],
                 z_hover, sweep_step)
    \o << <<0, 0, z_hover>>, <<0, 0, LAND_Z>> >>

\* drone_sweeper.py, get_sweep_waypoints: the same rows, flown from and back to
\* start_pos
sweeper_get_sweep_waypoints(start_pos, field_min, field_max, z_hover, sweep_step) ==
    << <<start_pos[1], start_pos[2], z_hover>>, <<field_min[1], field_min[2], z_hover>> >>
    \o SweepRows(field_min[2], TRUE, field_min[1], field_max[1], field_max[2],
                 z_hover, sweep_step)
    \o << <<start_pos[1], start_pos[2], z_hover>>, <<start_pos[1], start_pos[2], LAND_Z>> >>

\* ------------------------------------------------------------------- farms
\* farms_db after two add_farm calls: a one-row field, and a farm whose posted
\* 'boundaries' object lacks the min corner (add_farm stores what it is given).
FarmsDb ==
    { [id |-> 1, boundaries |-> [min_x |-> 0, min_y |-> 0, max_x |-> 1, max_y |-> 0]],
      [id |-> 2, boundaries |-> [max_x |-> 1, max_y |-> 0]] }
\* farms_db holding well-formed fields only: one row, two rows, and a field
\* whose min corner is off the home position.
SweepFarmsDb ==
    { [id |-> 1, boundaries |-> [min_x |-> 0, min_y |-> 0, max_x |-> 1, max_y |-> 0]],
      [id |-> 2, boundaries |-> [min_x |-> 0, min_y |-> 0, max_x |-> 1, max_y |-> 1]],
      [id |-> 3, boundaries |-> [min_x |-> -1, min_y |-> -1, max_x |-> 1, max_y |-> -1]] }
\* bounds['min_x'], bounds['min_y'], bounds['max_x'], bounds['max_y'] all exist
BoundsReadable(farm) ==
    {"min_x", "min_y", "max_x", "max_y"} \subseteq DOMAIN farm.boundaries

\* ------------------------------------------------------------------- state
VARIABLES
    \* farms_db
    farms_db,
    \* DroneSimulatorState (sim_state)
    is_running, is_paused, drone_id, current_position, current_waypoint,
    total_waypoints, status, simulation_thread, command_queue, current_farm,
    \* the pybullet client: p.isConnected(), the drone body's position, and
    \* the external forces applied to the body since the last physics step
    connected, drone_pos, external_forces,
    \* the mission threads started so far, each with its locals and position
    threads,
    \* request handlers between their check of is_running and their writes
    req,
    \* number of environment events so far
    nevents,
    \* the DSLPIDControl object (ctrl, app.py line 291): the fields its control
    \* methods read and write
    ctrl,
    \* the value the controller method or planner applied last has returned
    returned

shared == <<is_running, is_paused, drone_id, current_position, current_waypoint,
            total_waypoints, status, simulation_thread, command_queue, current_farm>>
physics == <<connected, drone_pos, external_forces>>
vars == <<farms_db, shared, physics, threads, req, nevents, ctrl, returned>>

Statuses == {"idle", "deploying", "flying", "stalled", "returning_home",
             "aborted", "completed", "error"}

FarmIds == {f.id : f \in farms_db}
\* A farm_id no farm of farms_db has.
UnknownFarmId == CHOOSE n \in 1..(Cardinality(farms_db) + 1) : n \notin FarmIds
\* next((f for f in farms_db if f['id'] == farm_id), None)
FindFarm(farm_id) == CHOOSE f \in farms_db : f.id = farm_id

\* Positions of a mission thread at which it runs no more code: returned
\* ("done"), or ended by an exception no handler caught ("dead").
EndedPcs == {"done", "dead"}
\* Positions inside the tick loop (lines 305-392); "apply" and "step" are
\* those inside the physics loop of lines 386-392, where it is taken step by step.
LoopPcs == {"loop", "pause", "tick", "apply", "step"}
ThreadIds == 1..Len(threads)
Alive(t) == threads[t].pc \notin EndedPcs

\* DSLPIDControl.reset (lines 36-42): the error memories start at zero
reset ==
    [control_counter |-> 0,
     last_rpy |-> Zeros3, integral_pos_e |-> Zeros3, integral_rpy_e |-> Zeros3]
\* The local name ctrl of a mission thread before the constructor call has
\* bound it (app.py line 291, drone_sweeper.py line 440).
NoController == [bound |-> FALSE]

\* A mission thread as threading.Thread(...).start() leaves it.  farm is its
\* argument (the id of the farm dict); outcome the
\* terminal status the task has set; abort_accepted whether an abort request
\* was accepted and queued while the task was inside its tick loop with a
\* valid index; aborts_polled the number of 'abort' commands the task has
\* taken from the queue; abort_requested whether an abort request has passed
\* the check of abort_drone since the thread was started.  ai_enabled,
\* camera_frame_counter and detections (the list held by the mission's
\* DiseaseDetectionMap) are locals of the AI-enabled task of drone_sweeper.py.
NewThread(farm_id) ==
    [pc |-> "begin", farm |-> farm_id, waypoints |-> <<>>,
     current_wp_idx |-> 0, virtual_pos |-> Zeros3, vp_alias |-> 0,
     target_vel |-> Zeros3, wait_timer |-> 0, is_waiting |-> FALSE,
     abort_initiated |-> FALSE, start_pos |-> Zeros3, sim_i |-> 0,
     ctrl |-> NoController,
     ai_enabled |-> FALSE, camera_frame_counter |-> 0, detections |-> <<>>,
     outcome |-> "none", abort_accepted |-> FALSE, aborts_polled |-> 0,
     abort_requested |-> FALSE]

\* A thread that has ended: its locals are gone; what it did is kept.
Ended(th, how) ==
    [NewThread(th.farm) EXCEPT !.pc = how, !.outcome = th.outcome,
                                         !.abort_accepted = th.abort_accepted,
                                         !.abort_requested = th.abort_requested]

\* Nothing has been applied yet.
NothingReturned == [fn |-> "none", value |-> <<>>]

StallStages == {"load", "store_true", "store_false", "status"}
NoRequests ==
    [deploy |-> <<>>, stall |-> [s \in StallStages |-> 0], abort |-> 0]

InitState ==
    /\ is_running = FALSE
    /\ is_paused = FALSE
    /\ drone_id = 0
    /\ current_position = Zeros3
    /\ current_waypoint = 0
    /\ total_waypoints = 0
    /\ status = "idle"
    /\ simulation_thread = 0
    /\ command_queue = <<>>
    /\ current_farm = 0
    /\ connected = FALSE
    /\ drone_pos = Zeros3
    /\ external_forces = {}
    /\ threads = <<>>
    /\ req = NoRequests
    /\ nevents = 0
    /\ ctrl = reset
    /\ returned = NothingReturned

Init == farms_db = FarmsDb /\ InitState

\* ------------------------------------------------------- request handlers
\* Flask serves requests on concurrent threads (threaded=True): a handler's
\* check of is_running and its later writes are separate steps.
Event == nevents < MaxEvents /\ nevents' = nevents + 1
RemoveAt(seq, i) == SubSeq(seq, 1, i - 1) \o SubSeq(seq, i + 1, Len(seq))

\* deploy_drone, lines 111-115: 400 'Drone is already deployed'
DeployRejected ==
    /\ Event
    /\ is_running
    /\ UNCHANGED <<farms_db, ctrl, returned, shared, physics, threads, req>>

\* deploy_drone, lines 117-126: 404 'Farm not found'
DeployNotFound ==
    /\ Event
    /\ ~is_running
    /\ UnknownFarmId \notin FarmIds
    /\ UNCHANGED <<farms_db, ctrl, returned, shared, physics, threads, req>>

\* deploy_drone, lines 111-126 passed: the handler holds the farm it found
DeployAccepted(farm_id) ==
    /\ Event
    /\ ~is_running
    /\ farm_id \in FarmIds
    /\ Len(threads) + Len(req.deploy) < MaxThreads
    /\ req' = [req EXCEPT !.deploy = Append(@, farm_id)]
    /\ UNCHANGED <<farms_db, ctrl, returned, shared, physics, threads>>

\* deploy_drone, lines 128-137: publish the farm and start the mission thread
StartMission(i) ==
    /\ i \in 1..Len(req.deploy)
    /\ req' = [req EXCEPT !.deploy = RemoveAt(@, i)]
    /\ current_farm' = FindFarm(req.deploy[i]).id
    /\ status' = "deploying"
    /\ threads' = Append(threads, NewThread(req.deploy[i]))
    /\ simulation_thread' = Len(threads) + 1
    /\ UNCHANGED <<farms_db, ctrl, returned, is_running, is_paused, drone_id, current_position,
                   current_waypoint, total_waypoints, command_queue, physics,
                   nevents>>

\* deploy_drone, lines 132-137: target=run_drone_simulation
DeployStart(i) == StartMission(i)

\* stall_drone, lines 148-152: 400 'No active drone mission'
StallRejected ==
    /\ Event
    /\ ~is_running
    /\ UNCHANGED <<farms_db, ctrl, returned, shared, physics, threads, req>>

\* StallAccepted without the check of line 148.
StallAccepted_NoCheck ==
    /\ Event
    /\ req' = [req EXCEPT !.stall["load"] = @ + 1]
    /\ UNCHANGED <<farms_db, ctrl, returned, shared, physics, threads>>

\* stall_drone, line 148 passed
StallAccepted ==
    /\ Event
    /\ is_running
    /\ req' = [req EXCEPT !.stall["load"] = @ + 1]
    /\ UNCHANGED <<farms_db, ctrl, returned, shared, physics, threads>>

\* stall_drone, line 154, right-hand side: not sim_state.is_paused
StallLoad ==
    /\ req.stall["load"] > 0
    /\ req' = [req EXCEPT !.stall["load"] = @ - 1,
                          !.stall[IF is_paused THEN "store_false" ELSE "store_true"] = @ + 1]
    /\ UNCHANGED <<farms_db, ctrl, returned, shared, physics, threads, nevents>>

\* stall_drone, line 154, the store to sim_state.is_paused
StallStore(value) ==
    /\ req.stall[IF value THEN "store_true" ELSE "store_false"] > 0
    /\ req' = [req EXCEPT !.stall[IF value THEN "store_true" ELSE "store_false"] = @ - 1,
                          !.stall["status"] = @ + 1]
    /\ is_paused' = value
    /\ UNCHANGED <<farms_db, ctrl, returned, is_running, drone_id, current_position,
                   current_waypoint, total_waypoints, status, simulation_thread,
                   command_queue, current_farm, physics, threads, nevents>>

\* stall_drone, line 155
StallStatus ==
    /\ req.stall["status"] > 0
    /\ req' = [req EXCEPT !.stall["status"] = @ - 1]
    /\ status' = IF is_paused THEN "stalled" ELSE "flying"
    /\ UNCHANGED <<farms_db, ctrl, returned, is_running, is_paused, drone_id, current_position,
                   current_waypoint, total_waypoints, simulation_thread,
                   command_queue, current_farm, physics, threads, nevents>>

\* abort_drone, lines 166-170: 400 'No active drone mission'
AbortRejected ==
    /\ Event
    /\ ~is_running
    /\ UNCHANGED <<farms_db, ctrl, returned, shared, physics, threads, req>>

\* abort_drone, line 166 passed
AbortAccepted ==
    /\ Event
    /\ is_running
    /\ req' = [req EXCEPT !.abort = @ + 1]
    /\ threads' = [t \in ThreadIds |->
                      IF Alive(t)
                      THEN [threads[t] EXCEPT !.abort_requested = TRUE]
                      ELSE threads[t]]
    /\ UNCHANGED <<farms_db, ctrl, returned, shared, physics>>

\* Whether thread th is inside its tick loop with a valid waypoint index.
InTickLoop(th) ==
    th.pc \in LoopPcs /\ th.current_wp_idx < Len(th.waypoints)

\* abort_drone, lines 172-177: sim_state.command_queue.put('abort'), and the
\* success response
AbortPut ==
    /\ req.abort > 0
    /\ req' = [req EXCEPT !.abort = @ - 1]
    /\ command_queue' = Append(command_queue, "abort")
    /\ threads' = [t \in ThreadIds |->
                      IF InTickLoop(threads[t])
                      THEN [threads[t] EXCEPT !.abort_accepted = TRUE]
                      ELSE threads[t]]
    /\ UNCHANGED <<farms_db, ctrl, returned, is_running, is_paused, drone_id, current_position,
                   current_waypoint, total_waypoints, status, simulation_thread,
                   current_farm, physics, nevents>>

\* ------------------------------------------------------------ environment
\* The physics server goes away under the mission (the GUI window opened by
\* p.connect(p.GUI) is closed): every later p.* call raises pybullet.error.
PhysicsServerLost ==
    /\ Event
    /\ connected
    /\ connected' = FALSE
    /\ UNCHANGED <<farms_db, ctrl, returned, shared, drone_pos, external_forces, threads, req>>

\* Where the SIM_STEPS calls of p.stepSimulation() of one tick leave the drone
\* when the controller steers it to `target`: on the target, or, disturbed,
\* off it by the tracking tolerance.
StepSimulation(target, disturbed) ==
    IF disturbed THEN VAdd(target, <<TRACK_TOL, 0, 0>>) ELSE target

\* ----------------------------------------------------------- mission thread
At(t, where) == t \in ThreadIds /\ threads[t].pc = where
Goto(t, where) == threads' = [threads EXCEPT ![t].pc = where]
Set(t, r) == threads' = [threads EXCEPT ![t] = r]
\* An exception inside the try block of run_drone_simulation: control moves to
\* the except clause (line 406).
Raise(t) == Goto(t, "except")

\* run_drone_simulation, line 262
BeginMission(t) ==
    /\ At(t, "begin")
    /\ is_running' = TRUE
    /\ Goto(t, "announce")
    /\ UNCHANGED <<farms_db, ctrl, returned, is_paused, drone_id, current_position, current_waypoint,
                   total_waypoints, status, simulation_thread, command_queue,
                   current_farm, physics, req, nevents>>

\* run_drone_simulation, lines 263-264
AnnounceFlying(t) ==
    /\ At(t, "announce")
    /\ status' = "flying"
    /\ current_waypoint' = 0
    /\ Goto(t, "bounds")
    /\ UNCHANGED <<farms_db, ctrl, returned, is_running, is_paused, drone_id, current_position,
                   total_waypoints, simulation_thread, command_queue,
                   current_farm, physics, req, nevents>>

\* run_drone_simulation, lines 268-270: KeyError when a key is missing
ReadBounds(t) ==
    /\ At(t, "bounds")
    /\ IF BoundsReadable(FindFarm(threads[t].farm))
       THEN Goto(t, "disconnect") ELSE Raise(t)
    /\ UNCHANGED <<farms_db, ctrl, returned, shared, physics, req, nevents>>

\* setup_simulation, lines 184-185: if p.isConnected(): p.disconnect()
SetupDisconnect(t) ==
    /\ At(t, "disconnect")
    /\ connected' = FALSE
    /\ Goto(t, "connect")
    /\ UNCHANGED <<farms_db, ctrl, returned, shared, drone_pos, external_forces, req, nevents>>

\* setup_simulation, lines 186-198, and line 274
SetupConnect(t) ==
    /\ At(t, "connect")
    /\ connected' = TRUE
    /\ drone_pos' = <<0, 0, START_Z>>
    /\ external_forces' = {}
    /\ drone_id' = 1
    /\ Goto(t, "plan")
    /\ UNCHANGED <<farms_db, ctrl, returned, is_running, is_paused, current_position, current_waypoint,
                   total_waypoints, status, simulation_thread, command_queue,
                   current_farm, req, nevents>>

\* run_drone_simulation, lines 275-303: draw and plant the field (p.* calls),
\* plan the sweep, publish its length, initialise the trajectory state
PlanMission(t) ==
    /\ At(t, "plan")
    /\ IF ~connected
       THEN /\ Raise(t)
            /\ UNCHANGED shared
       ELSE LET b == FindFarm(threads[t].farm).boundaries
                wps == get_sweep_waypoints(<<b.min_x, b.min_y>>, <<b.max_x, b.max_y>>,
                                           HOVER_ALTITUDE, SWEEP_STEP)
            IN  /\ total_waypoints' = Len(wps)
                /\ Set(t, [threads[t] EXCEPT
                              !.pc = "loop", !.waypoints = wps, !.current_wp_idx = 0,
                              !.ctrl = reset,
                              !.virtual_pos = <<0, 0, START_Z>>, !.vp_alias = 0,
                              !.target_vel = Zeros3, !.wait_timer = 0,
                              !.is_waiting = FALSE, !.abort_initiated = FALSE])
                /\ UNCHANGED <<farms_db, ctrl, returned, is_running, is_paused, drone_id, current_position,
                               current_waypoint, status, simulation_thread,
                               command_queue, current_farm>>
    /\ UNCHANGED <<farms_db, ctrl, returned, physics, req, nevents>>

\* Lines 318-322: the return-home path from the drone's position cur_pos_abort
ReturnHomeWaypoints(cur_pos_abort) ==
    << <<cur_pos_abort[1], cur_pos_abort[2], HOVER_ALTITUDE>>,
       <<0, 0, HOVER_ALTITUDE>>,
       <<0, 0, LAND_Z>> >>

\* Lines 324-329: the abort's writes to the trajectory locals, given the
\* drone's position as read at line 315
ResetTrajectory(th, cur_pos_abort, return_home_waypoints) ==
    [th EXCEPT !.waypoints = return_home_waypoints,
               !.current_wp_idx = 0,
               !.virtual_pos = cur_pos_abort,
               !.vp_alias = 0,
               !.is_waiting = FALSE,
               !.wait_timer = 0]

\* ApplyAbort without lines 328-329: the dwell state survives the abort.
ApplyAbort_KeepsDwell(th, cur_pos_abort) ==
    [th EXCEPT !.abort_initiated = TRUE,
               !.waypoints = ReturnHomeWaypoints(cur_pos_abort),
               !.current_wp_idx = 0,
               !.virtual_pos = cur_pos_abort,
               !.vp_alias = 0]

\* Lines 309-329, the body of `if cmd == 'abort' and not abort_initiated`,
\* applied to the thread's locals once the drone's position has been read
ApplyAbort(th, cur_pos_abort) ==
    [ResetTrajectory(th, cur_pos_abort, ReturnHomeWaypoints(cur_pos_abort))
        EXCEPT !.abort_initiated = TRUE]

\* run_drone_simulation, line 305 (false) : the loop ends
LoopExit(t) ==
    /\ At(t, "loop")
    /\ ~(threads[t].current_wp_idx < Len(threads[t].waypoints))
    /\ Goto(t, "finish")
    /\ UNCHANGED <<farms_db, ctrl, returned, shared, physics, req, nevents>>

\* run_drone_simulation, lines 305-333 with an empty queue (queue.Empty)
PollEmpty(t) ==
    /\ At(t, "loop")
    /\ threads[t].current_wp_idx < Len(threads[t].waypoints)
    /\ command_queue = <<>>
    /\ Goto(t, "pause")
    /\ UNCHANGED <<farms_db, ctrl, returned, shared, physics, req, nevents>>

\* PollCommand without the latch `and not abort_initiated` of line 309: every
\* abort taken from the queue replans the return path.
PollCommand_NoLatch(t) ==
    /\ At(t, "loop")
    /\ threads[t].current_wp_idx < Len(threads[t].waypoints)
    /\ command_queue # <<>>
    /\ command_queue' = Tail(command_queue)
    /\ status' = "returning_home"
    /\ IF connected
       THEN Set(t, [ApplyAbort(threads[t], drone_pos) EXCEPT
                       !.pc = "pause", !.aborts_polled = @ + 1])
       ELSE Set(t, [threads[t] EXCEPT !.abort_initiated = TRUE, !.pc = "except",
                                      !.aborts_polled = @ + 1])
    /\ UNCHANGED <<farms_db, ctrl, returned, is_running, is_paused, drone_id, current_position,
                   current_waypoint, total_waypoints, simulation_thread,
                   current_farm, physics, req, nevents>>

\* run_drone_simulation, lines 305-333 with a command in the queue
PollCommand(t) ==
    /\ At(t, "loop")
    /\ threads[t].current_wp_idx < Len(threads[t].waypoints)
    /\ command_queue # <<>>
    /\ command_queue' = Tail(command_queue)
    /\ IF Head(command_queue) = "abort" /\ ~threads[t].abort_initiated
       THEN /\ status' = "returning_home"
            /\ IF connected
               THEN Set(t, [ApplyAbort(threads[t], drone_pos) EXCEPT
                               !.pc = "pause", !.aborts_polled = @ + 1])
               ELSE Set(t, [threads[t] EXCEPT !.abort_initiated = TRUE, !.pc = "except",
                                              !.aborts_polled = @ + 1])
       ELSE /\ Set(t, [threads[t] EXCEPT !.pc = "pause", !.aborts_polled = @ + 1])
            /\ UNCHANGED status
    /\ UNCHANGED <<farms_db, ctrl, returned, is_running, is_paused, drone_id, current_position,
                   current_waypoint, total_waypoints, simulation_thread,
                   current_farm, physics, req, nevents>>

\* PauseWait without the test of is_paused: the loop never waits.
PauseWait_NoWait(t) ==
    /\ At(t, "pause")
    /\ Goto(t, "tick")
    /\ UNCHANGED <<farms_db, ctrl, returned, shared, physics, req, nevents>>

\* run_drone_simulation, lines 336-338: leaves the wait once is_paused is false
PauseWait(t) ==
    /\ At(t, "pause")
    /\ ~is_paused
    /\ Goto(t, "tick")
    /\ UNCHANGED <<farms_db, ctrl, returned, shared, physics, req, nevents>>

\* AdvanceWaypoint stepping over the next waypoint.
AdvanceWaypoint_SkipsOne(th) ==
    [th EXCEPT !.target_vel = Zeros3, !.is_waiting = FALSE,
               !.current_wp_idx = @ + 2, !.wait_timer = 0]

\* Lines 353, 358-361: the dwell is over and the drone is on the waypoint
AdvanceWaypoint(th) ==
    [th EXCEPT !.target_vel = Zeros3, !.is_waiting = FALSE,
               !.current_wp_idx = @ + 1, !.wait_timer = 0]

\* UpdateVirtualTarget without the test `drone_dist < 0.2` of line 358: the
\* dwell time alone releases the waypoint.
UpdateVirtualTarget_DwellOnly(th, cur_pos) ==
    LET goal == th.waypoints[th.current_wp_idx + 1]
        vector_to_goal == VSub(goal, th.virtual_pos)
        timer == th.wait_timer + CTRL_TIMESTEP
        vel == CruiseVelocity(vector_to_goal)
        moved == VAdd(th.virtual_pos, VScale(vel, CTRL_TIMESTEP))
    IN  IF th.is_waiting
        THEN IF timer >= WAIT_TIME_AT_CORNER
             THEN AdvanceWaypoint(th)
             ELSE [th EXCEPT !.target_vel = Zeros3, !.wait_timer = timer]
        ELSE IF NormSq(vector_to_goal) < ARRIVE_TOL * ARRIVE_TOL
        THEN [th EXCEPT !.is_waiting = TRUE, !.target_vel = Zeros3,
                        !.virtual_pos = goal, !.vp_alias = th.current_wp_idx + 1]
        ELSE [th EXCEPT !.target_vel = vel, !.virtual_pos = moved,
                        !.waypoints = IF th.vp_alias = 0 THEN @
                                      ELSE [@ EXCEPT ![th.vp_alias] = moved]]

\* UpdateVirtualTarget without the division by dist_to_goal of line 369: the
\* velocity is vector_to_goal * CRUISE_SPEED.
UpdateVirtualTarget_NotNormalised(th, cur_pos) ==
    LET goal == th.waypoints[th.current_wp_idx + 1]
        vector_to_goal == VSub(goal, th.virtual_pos)
        timer == th.wait_timer + CTRL_TIMESTEP
        drone_off == VSub(cur_pos, th.virtual_pos)
        vel == VScale(vector_to_goal, CRUISE_SPEED)
        moved == VAdd(th.virtual_pos, VScale(vel, CTRL_TIMESTEP))
    IN  IF th.is_waiting
        THEN IF timer >= WAIT_TIME_AT_CORNER /\ NormSq(drone_off) < TRACK_TOL * TRACK_TOL
             THEN AdvanceWaypoint(th)
             ELSE [th EXCEPT !.target_vel = Zeros3,
                             !.wait_timer = IF timer > WAIT_TIME_AT_CORNER
                                            THEN WAIT_TIME_AT_CORNER ELSE timer]
        ELSE IF NormSq(vector_to_goal) < ARRIVE_TOL * ARRIVE_TOL
        THEN [th EXCEPT !.is_waiting = TRUE, !.target_vel = Zeros3,
                        !.virtual_pos = goal, !.vp_alias = th.current_wp_idx + 1]
        ELSE [th EXCEPT !.target_vel = vel, !.virtual_pos = moved,
                        !.waypoints = IF th.vp_alias = 0 THEN @
                                      ELSE [@ EXCEPT ![th.vp_alias] = moved]]

\* Lines 349-371: the trajectory update of one tick, on the thread's locals.
\* goal is waypoints[current_wp_idx]; `virtual_pos = goal` (line 366) binds
\* virtual_pos to that array itself, recorded in vp_alias (its 1-based place),
\* and `virtual_pos += ...` (line 371) then writes through to it.  wait_timer
\* saturates at the threshold, beyond which its value decides nothing.
UpdateVirtualTarget(th, cur_pos) ==
    LET goal == th.waypoints[th.current_wp_idx + 1]
        vector_to_goal == VSub(goal, th.virtual_pos)
        timer == th.wait_timer + CTRL_TIMESTEP
        drone_off == VSub(cur_pos, th.virtual_pos)
        vel == CruiseVelocity(vector_to_goal)
        moved == VAdd(th.virtual_pos, VScale(vel, CTRL_TIMESTEP))
    IN  IF th.is_waiting
        THEN IF timer >= WAIT_TIME_AT_CORNER /\ NormSq(drone_off) < TRACK_TOL * TRACK_TOL
             THEN AdvanceWaypoint(th)
             ELSE [th EXCEPT !.target_vel = Zeros3,
                             !.wait_timer = IF timer > WAIT_TIME_AT_CORNER
                                            THEN WAIT_TIME_AT_CORNER ELSE timer]
        ELSE IF NormSq(vector_to_goal) < ARRIVE_TOL * ARRIVE_TOL
        THEN [th EXCEPT !.is_waiting = TRUE, !.target_vel = Zeros3,
                        !.virtual_pos = goal, !.vp_alias = th.current_wp_idx + 1]
        ELSE [th EXCEPT !.target_vel = vel, !.virtual_pos = moved,
                        !.waypoints = IF th.vp_alias = 0 THEN @
                                      ELSE [@ EXCEPT ![th.vp_alias] = moved]]

\* Tick writing the drone's height into the published list in place of
\* publishing a new list (line 345).
Tick_PublishesInPlace(t, disturbed) ==
    /\ At(t, "tick")
    /\ connected
    /\ IF disturbed THEN Event ELSE UNCHANGED nevents
    /\ LET th == UpdateVirtualTarget(threads[t], drone_pos)
       IN  /\ current_position' = [current_position EXCEPT ![3] = drone_pos[3]]
           /\ current_waypoint' = threads[t].current_wp_idx
           /\ drone_pos' = StepSimulation(th.virtual_pos, disturbed)
           /\ external_forces' = {}
           /\ Set(t, [th EXCEPT !.pc = "loop", !.sim_i = SIM_STEPS])
    /\ UNCHANGED <<farms_db, ctrl, returned, is_running, is_paused, drone_id, total_waypoints, status,
                   simulation_thread, command_queue, current_farm, connected, req>>

\* run_drone_simulation, lines 341-392, one control tick: read the pose,
\* publish it, update the virtual target, compute the control and apply its
\* forces over SIM_STEPS physics steps
Tick(t, disturbed) ==
    /\ At(t, "tick")
    /\ connected
    /\ IF disturbed THEN Event ELSE UNCHANGED nevents
    /\ LET th == UpdateVirtualTarget(threads[t], drone_pos)
       IN  /\ current_position' = drone_pos
           /\ current_waypoint' = threads[t].current_wp_idx
           /\ drone_pos' = StepSimulation(th.virtual_pos, disturbed)
           /\ external_forces' = {}
           /\ Set(t, [th EXCEPT !.pc = "loop", !.sim_i = SIM_STEPS])
    /\ UNCHANGED <<farms_db, ctrl, returned, is_running, is_paused, drone_id, total_waypoints, status,
                   simulation_thread, command_queue, current_farm, connected, req>>

\* run_drone_simulation, line 341 when not connected: pybullet.error
TickRaises(t) ==
    /\ At(t, "tick")
    /\ ~connected
    /\ Raise(t)
    /\ UNCHANGED <<farms_db, ctrl, returned, shared, physics, req, nevents>>

\* run_drone_simulation, lines 394-399
FinishStatus(t) ==
    /\ At(t, "finish")
    /\ IF threads[t].abort_initiated
       THEN /\ status' = "aborted"
            /\ Set(t, [threads[t] EXCEPT !.pc = "settle", !.outcome = "aborted"])
       ELSE IF status # "aborted"
       THEN /\ status' = "completed"
            /\ Set(t, [threads[t] EXCEPT !.pc = "settle", !.outcome = "completed"])
       ELSE /\ UNCHANGED status
            /\ Goto(t, "settle")
    /\ UNCHANGED <<farms_db, ctrl, returned, is_running, is_paused, drone_id, current_position,
                   current_waypoint, total_waypoints, simulation_thread,
                   command_queue, current_farm, physics, req, nevents>>

\* run_drone_simulation, lines 402-404: let physics settle
Settle(t) ==
    /\ At(t, "settle")
    /\ IF connected THEN Goto(t, "fin_running") ELSE Raise(t)
    /\ UNCHANGED <<farms_db, ctrl, returned, shared, physics, req, nevents>>

\* Except without line 408: the handler leaves the status as it found it.
Except_KeepsStatus(t) ==
    /\ At(t, "except")
    /\ Set(t, [threads[t] EXCEPT !.pc = "fin_running", !.outcome = "error"])
    /\ UNCHANGED <<farms_db, ctrl, returned, shared, physics, req, nevents>>

\* run_drone_simulation, lines 406-408
Except(t) ==
    /\ At(t, "except")
    /\ status' = "error"
    /\ Set(t, [threads[t] EXCEPT !.pc = "fin_running", !.outcome = "error"])
    /\ UNCHANGED <<farms_db, ctrl, returned, is_running, is_paused, drone_id, current_position,
                   current_waypoint, total_waypoints, simulation_thread,
                   command_queue, current_farm, physics, req, nevents>>

\* run_drone_simulation, line 411
FinallyRunning(t) ==
    /\ At(t, "fin_running")
    /\ is_running' = FALSE
    /\ Goto(t, "fin_paused")
    /\ UNCHANGED <<farms_db, ctrl, returned, is_paused, drone_id, current_position,
                   current_waypoint, total_waypoints, status, simulation_thread,
                   command_queue, current_farm, physics, req, nevents>>

\* run_drone_simulation, line 412
FinallyPaused(t) ==
    /\ At(t, "fin_paused")
    /\ is_paused' = FALSE
    /\ Goto(t, "fin_disconnect")
    /\ UNCHANGED <<farms_db, ctrl, returned, is_running, drone_id, current_position,
                   current_waypoint, total_waypoints, status, simulation_thread,
                   command_queue, current_farm, physics, req, nevents>>

\* run_drone_simulation, lines 413-414; the thread ends
FinallyDisconnect(t) ==
    /\ At(t, "fin_disconnect")
    /\ connected' = FALSE
    /\ Set(t, Ended(threads[t], "done"))
    /\ UNCHANGED <<farms_db, ctrl, returned, shared, drone_pos, external_forces, req, nevents>>

\* ------------------------------------------------------------ the program
Next ==
    \/ DeployRejected
    \/ DeployNotFound
    \/ \E farm_id \in FarmIds : DeployAccepted(farm_id)
    \/ \E i \in 1..MaxThreads : DeployStart(i)
    \/ StallRejected
    \/ StallAccepted
    \/ StallLoad
    \/ \E value \in BOOLEAN : StallStore(value)
    \/ StallStatus
    \/ AbortRejected
    \/ AbortAccepted
    \/ AbortPut
    \/ PhysicsServerLost
    \/ \E t \in 1..MaxThreads : BeginMission(t)
    \/ \E t \in 1..MaxThreads : AnnounceFlying(t)
    \/ \E t \in 1..MaxThreads : ReadBounds(t)
    \/ \E t \in 1..MaxThreads : SetupDisconnect(t)
    \/ \E t \in 1..MaxThreads : SetupConnect(t)
    \/ \E t \in 1..MaxThreads : PlanMission(t)
    \/ \E t \in 1..MaxThreads : LoopExit(t)
    \/ \E t \in 1..MaxThreads : PollEmpty(t)
    \/ \E t \in 1..MaxThreads : PollCommand(t)
    \/ \E t \in 1..MaxThreads : PauseWait(t)
    \/ \E t \in 1..MaxThreads, disturbed \in BOOLEAN : Tick(t, disturbed)
    \/ \E t \in 1..MaxThreads : TickRaises(t)
    \/ \E t \in 1..MaxThreads : FinishStatus(t)
    \/ \E t \in 1..MaxThreads : Settle(t)
    \/ \E t \in 1..MaxThreads : Except(t)
    \/ \E t \in 1..MaxThreads : FinallyRunning(t)
    \/ \E t \in 1..MaxThreads : FinallyPaused(t)
    \/ \E t \in 1..MaxThreads : FinallyDisconnect(t)

Spec == Init /\ [][Next]_vars

TypeOK ==
    /\ is_running \in BOOLEAN /\ is_paused \in BOOLEAN
    /\ status \in Statuses
    /\ Len(threads) <= MaxThreads
    /\ nevents \in 0..MaxEvents

\* ------------------------------------- the mission task of drone_sweeper.py
\* run_drone_simulation_flask(farm, sim_state) behind the same command
\* surface.  Its statements that are those of run_drone_simulation (lines
\* 377-380, 420-421, 454-597, 610-629) are the actions above; the actions below
\* are where it differs.

\* deploy_drone, lines 132-137, with target=run_drone_simulation_flask
FlaskDeployStart(i) == StartMission(i)

\* run_drone_simulation_flask, lines 383-386, outside any try block: a KeyError
\* here ends the thread
FlaskReadBounds(t) ==
    /\ At(t, "bounds")
    /\ IF BoundsReadable(FindFarm(threads[t].farm))
       THEN Goto(t, "disconnect")
       ELSE Set(t, Ended(threads[t], "dead"))
    /\ UNCHANGED <<farms_db, ctrl, returned, shared, physics, req, nevents>>

\* run_drone_simulation_flask, lines 422-451
FlaskPlanMission(t) ==
    /\ At(t, "plan")
    /\ IF ~connected
       THEN /\ Raise(t)
            /\ UNCHANGED shared
       ELSE LET b == FindFarm(threads[t].farm).boundaries
                start_pos == <<b.min_x - START_MARGIN, b.min_y - START_MARGIN, START_Z>>
                wps == sweeper_get_sweep_waypoints(start_pos, <<b.min_x, b.min_y>>,
                                                   <<b.max_x, b.max_y>>,
                                                   HOVER_ALTITUDE, SWEEP_STEP)
            IN  /\ total_waypoints' = Len(wps)
                /\ Set(t, [threads[t] EXCEPT
                              !.pc = "loop", !.waypoints = wps, !.current_wp_idx = 0,
                              !.ctrl = reset,
                              !.start_pos = start_pos,
                              !.virtual_pos = start_pos, !.vp_alias = 0,
                              !.target_vel = Zeros3, !.wait_timer = 0,
                              !.is_waiting = FALSE, !.abort_initiated = FALSE])
                /\ UNCHANGED <<is_running, is_paused, drone_id, current_position,
                               current_waypoint, status, simulation_thread,
                               command_queue, current_farm>>
    /\ UNCHANGED <<farms_db, ctrl, returned, physics, req, nevents>>

\* run_drone_simulation_flask, lines 464-468: the return path, to start_pos
FlaskReturnHomeWaypoints(cur_pos_abort, start_pos) ==
    << <<cur_pos_abort[1], cur_pos_abort[2], HOVER_ALTITUDE>>,
       <<start_pos[1], start_pos[2], HOVER_ALTITUDE>>,
       <<start_pos[1], start_pos[2], LAND_Z>> >>

\* run_drone_simulation_flask, lines 456-476 with a command in the queue
FlaskPollCommand(t) ==
    /\ At(t, "loop")
    /\ threads[t].current_wp_idx < Len(threads[t].waypoints)
    /\ command_queue # <<>>
    /\ command_queue' = Tail(command_queue)
    /\ IF Head(command_queue) = "abort" /\ ~threads[t].abort_initiated
       THEN /\ status' = "returning_home"
            /\ IF connected
               THEN Set(t, [ResetTrajectory(threads[t], drone_pos,
                               FlaskReturnHomeWaypoints(drone_pos, threads[t].start_pos))
                               EXCEPT !.abort_initiated = TRUE, !.pc = "pause",
                                      !.aborts_polled = @ + 1])
               ELSE Set(t, [threads[t] EXCEPT !.abort_initiated = TRUE, !.pc = "except",
                                              !.aborts_polled = @ + 1])
       ELSE /\ Set(t, [threads[t] EXCEPT !.pc = "pause", !.aborts_polled = @ + 1])
            /\ UNCHANGED status
    /\ UNCHANGED <<farms_db, ctrl, returned, is_running, is_paused, drone_id, current_position,
                   current_waypoint, total_waypoints, simulation_thread,
                   current_farm, physics, req, nevents>>

\* run_drone_simulation_flask, lines 599-604
FlaskFinishStatus(t) ==
    /\ At(t, "finish")
    /\ status' = IF threads[t].abort_initiated THEN "aborted" ELSE "completed"
    /\ Set(t, [threads[t] EXCEPT !.pc = "settle", !.outcome = status'])
    /\ UNCHANGED <<farms_db, ctrl, returned, is_running, is_paused, drone_id, current_position,
                   current_waypoint, total_waypoints, simulation_thread,
                   command_queue, current_farm, physics, req, nevents>>

NextSweeper ==
    \/ DeployRejected
    \/ DeployNotFound
    \/ \E farm_id \in FarmIds : DeployAccepted(farm_id)
    \/ \E i \in 1..MaxThreads : FlaskDeployStart(i)
    \/ StallRejected
    \/ StallAccepted
    \/ StallLoad
    \/ \E value \in BOOLEAN : StallStore(value)
    \/ StallStatus
    \/ AbortRejected
    \/ AbortAccepted
    \/ AbortPut
    \/ PhysicsServerLost
    \/ \E t \in 1..MaxThreads : BeginMission(t)
    \/ \E t \in 1..MaxThreads : AnnounceFlying(t)
    \/ \E t \in 1..MaxThreads : FlaskReadBounds(t)
    \/ \E t \in 1..MaxThreads : SetupDisconnect(t)
    \/ \E t \in 1..MaxThreads : SetupConnect(t)
    \/ \E t \in 1..MaxThreads : FlaskPlanMission(t)
    \/ \E t \in 1..MaxThreads : LoopExit(t)
    \/ \E t \in 1..MaxThreads : PollEmpty(t)
    \/ \E t \in 1..MaxThreads : FlaskPollCommand(t)
    \/ \E t \in 1..MaxThreads : PauseWait(t)
    \/ \E t \in 1..MaxThreads, disturbed \in BOOLEAN : Tick(t, disturbed)
    \/ \E t \in 1..MaxThreads : TickRaises(t)
    \/ \E t \in 1..MaxThreads : FlaskFinishStatus(t)
    \/ \E t \in 1..MaxThreads : Settle(t)
    \/ \E t \in 1..MaxThreads : Except(t)
    \/ \E t \in 1..MaxThreads : FinallyRunning(t)
    \/ \E t \in 1..MaxThreads : FinallyPaused(t)
    \/ \E t \in 1..MaxThreads : FinallyDisconnect(t)

SpecSweeper == Init /\ [][NextSweeper]_vars

\* ----------------------------------------- a mission with perfect tracking
\* Missions over well-formed fields, one after the other, with a controller
\* that puts the drone on the virtual target at every tick, and no pause, no
\* abort and no fault.
InitPerfect == farms_db = SweepFarmsDb /\ InitState

\* deploy_drone, lines 111-126, for a request made when no other is in hand
\* and no mission thread is left running
DeployAlone(farm_id) ==
    /\ req.deploy = <<>>
    /\ \A t \in ThreadIds : ~Alive(t)
    /\ DeployAccepted(farm_id)

NextPerfect ==
    \/ \E farm_id \in FarmIds : DeployAlone(farm_id)
    \/ \E i \in 1..MaxThreads : DeployStart(i)
    \/ \E t \in 1..MaxThreads : BeginMission(t)
    \/ \E t \in 1..MaxThreads : AnnounceFlying(t)
    \/ \E t \in 1..MaxThreads : ReadBounds(t)
    \/ \E t \in 1..MaxThreads : SetupDisconnect(t)
    \/ \E t \in 1..MaxThreads : SetupConnect(t)
    \/ \E t \in 1..MaxThreads : PlanMission(t)
    \/ \E t \in 1..MaxThreads : LoopExit(t)
    \/ \E t \in 1..MaxThreads : PollEmpty(t)
    \/ \E t \in 1..MaxThreads : PauseWait(t)
    \/ \E t \in 1..MaxThreads : Tick(t, FALSE)
    \/ \E t \in 1..MaxThreads : FinishStatus(t)
    \/ \E t \in 1..MaxThreads : Settle(t)
    \/ \E t \in 1..MaxThreads : FinallyRunning(t)
    \/ \E t \in 1..MaxThreads : FinallyPaused(t)
    \/ \E t \in 1..MaxThreads : FinallyDisconnect(t)

\* The mission thread is a started OS thread and the handler a request being
\* served: each takes its next step as long as it has one.
SpecPerfect ==
    /\ InitPerfect
    /\ [][NextPerfect]_vars
    /\ WF_vars(\E i \in 1..MaxThreads : DeployStart(i))
    /\ WF_vars(\E t \in 1..MaxThreads :
                  \/ BeginMission(t) \/ AnnounceFlying(t) \/ ReadBounds(t)
                  \/ SetupDisconnect(t) \/ SetupConnect(t) \/ PlanMission(t)
                  \/ LoopExit(t) \/ PollEmpty(t) \/ PauseWait(t) \/ Tick(t, FALSE)
                  \/ FinishStatus(t) \/ Settle(t) \/ FinallyRunning(t)
                  \/ FinallyPaused(t) \/ FinallyDisconnect(t))

\* ------------------------------------------ missions that keep being scheduled
\* Missions deployed one at a time, with the pause and abort handlers, an
\* undisturbed drone and a physics server that stays up.
NextLive ==
    \/ DeployRejected
    \/ \E farm_id \in FarmIds : DeployAlone(farm_id)
    \/ \E i \in 1..MaxThreads : DeployStart(i)
    \/ StallRejected
    \/ StallAccepted
    \/ StallLoad
    \/ \E value \in BOOLEAN : StallStore(value)
    \/ StallStatus
    \/ AbortRejected
    \/ AbortAccepted
    \/ AbortPut
    \/ \E t \in 1..MaxThreads : BeginMission(t)
    \/ \E t \in 1..MaxThreads : AnnounceFlying(t)
    \/ \E t \in 1..MaxThreads : ReadBounds(t)
    \/ \E t \in 1..MaxThreads : SetupDisconnect(t)
    \/ \E t \in 1..MaxThreads : SetupConnect(t)
    \/ \E t \in 1..MaxThreads : PlanMission(t)
    \/ \E t \in 1..MaxThreads : LoopExit(t)
    \/ \E t \in 1..MaxThreads : PollEmpty(t)
    \/ \E t \in 1..MaxThreads : PollCommand(t)
    \/ \E t \in 1..MaxThreads : PauseWait(t)
    \/ \E t \in 1..MaxThreads : Tick(t, FALSE)
    \/ \E t \in 1..MaxThreads : FinishStatus(t)
    \/ \E t \in 1..MaxThreads : Settle(t)
    \/ \E t \in 1..MaxThreads : Except(t)
    \/ \E t \in 1..MaxThreads : FinallyRunning(t)
    \/ \E t \in 1..MaxThreads : FinallyPaused(t)
    \/ \E t \in 1..MaxThreads : FinallyDisconnect(t)

\* The steps of a mission thread, and the steps by which a handler that has
\* passed its check goes on to its writes.
MissionThreadStep ==
    \E t \in 1..MaxThreads :
        \/ BeginMission(t) \/ AnnounceFlying(t) \/ ReadBounds(t)
        \/ SetupDisconnect(t) \/ SetupConnect(t) \/ PlanMission(t)
        \/ LoopExit(t) \/ PollEmpty(t) \/ PollCommand(t) \/ PauseWait(t)
        \/ Tick(t, FALSE) \/ FinishStatus(t) \/ Settle(t) \/ Except(t)
        \/ FinallyRunning(t) \/ FinallyPaused(t) \/ FinallyDisconnect(t)
HandlerStep ==
    \/ \E i \in 1..MaxThreads : DeployStart(i)
    \/ StallLoad
    \/ \E value \in BOOLEAN : StallStore(value)
    \/ StallStatus
    \/ AbortPut

\* Started threads and handlers being served are scheduled: each takes its
\* next step as long as it has one.
SpecLive ==
    /\ Init
    /\ [][NextLive]_vars
    /\ WF_vars(MissionThreadStep)
    /\ WF_vars(HandlerStep)

\* ------------------------------------- the AI-enabled loop of drone_sweeper.py
\* run_drone_simulation_flask with its camera and detection branch, for
\* missions deployed one at a time, with the abort handler, an undisturbed
\* drone and a physics server that stays up.

\* The camera is read every fifth tick (line 528)
CAMERA_EVERY == 5
\* Most detections recorded in one mission
MaxDetections == 2

\* run_drone_simulation_flask, lines 383-416: read the bounds, create the
\* mission's disease map, load the models; ai_enabled tells whether both
\* model files were there and loaded
FlaskLoadModels(t, ai_enabled) ==
    /\ At(t, "bounds")
    /\ IF BoundsReadable(FindFarm(threads[t].farm))
       THEN Set(t, [threads[t] EXCEPT !.pc = "disconnect", !.ai_enabled = ai_enabled,
                                      !.detections = <<>>])
       ELSE Set(t, Ended(threads[t], "dead"))
    /\ UNCHANGED <<farms_db, ctrl, returned, shared, physics, req, nevents>>

\* Line 533 without `and not abort_initiated`
DetectionRuns_IgnoresAbort(th) == th.ai_enabled

\* Line 533: if ai_enabled and not abort_initiated
DetectionRuns(th) == th.ai_enabled /\ ~th.abort_initiated

\* DiseaseDetectionMap.add_detection (lines 242-263): the detection is
\* appended to the list (its place and the camera frame it came from)
add_detection(detections, x, y, frame) ==
    Append(detections, [x |-> x, y |-> y, frame |-> frame])

\* Lines 526-570 for thread record th at drone position cur_pos: count the
\* tick, and on every fifth, when detection runs and the detector has found
\* a leaf (found), record the diagnosis at the drone's position
CameraAndAI(th, cur_pos, found) ==
    LET counted == [th EXCEPT !.camera_frame_counter = @ + 1]
    IN  IF /\ counted.camera_frame_counter % CAMERA_EVERY = 0
           /\ DetectionRuns(counted)
           /\ found
        THEN [counted EXCEPT !.detections =
                 add_detection(@, cur_pos[1], cur_pos[2], counted.camera_frame_counter)]
        ELSE counted

\* run_drone_simulation_flask, lines 483-597: one tick with its camera branch
FlaskTick(t) ==
    /\ At(t, "tick")
    /\ connected
    /\ \E found \in BOOLEAN :
        /\ found => Len(threads[t].detections) < MaxDetections
        /\ LET th == CameraAndAI(UpdateVirtualTarget(threads[t], drone_pos),
                                 drone_pos, found)
           IN  /\ current_position' = drone_pos
               /\ current_waypoint' = threads[t].current_wp_idx
               /\ drone_pos' = StepSimulation(th.virtual_pos, FALSE)
               /\ external_forces' = {}
               /\ Set(t, [th EXCEPT !.pc = "loop", !.sim_i = SIM_STEPS])
    /\ UNCHANGED <<farms_db, ctrl, returned, is_running, is_paused, drone_id, total_waypoints, status,
                   simulation_thread, command_queue, current_farm, connected, req, nevents>>

NextDetection ==
    \/ DeployRejected
    \/ \E farm_id \in FarmIds : DeployAlone(farm_id)
    \/ \E i \in 1..MaxThreads : FlaskDeployStart(i)
    \/ AbortRejected
    \/ AbortAccepted
    \/ AbortPut
    \/ \E t \in 1..MaxThreads : BeginMission(t)
    \/ \E t \in 1..MaxThreads : AnnounceFlying(t)
    \/ \E t \in 1..MaxThreads, ai_enabled \in BOOLEAN : FlaskLoadModels(t, ai_enabled)
    \/ \E t \in 1..MaxThreads : SetupDisconnect(t)
    \/ \E t \in 1..MaxThreads : SetupConnect(t)
    \/ \E t \in 1..MaxThreads : FlaskPlanMission(t)
    \/ \E t \in 1..MaxThreads : LoopExit(t)
    \/ \E t \in 1..MaxThreads : PollEmpty(t)
    \/ \E t \in 1..MaxThreads : FlaskPollCommand(t)
    \/ \E t \in 1..MaxThreads : PauseWait(t)
    \/ \E t \in 1..MaxThreads : FlaskTick(t)
    \/ \E t \in 1..MaxThreads : FlaskFinishStatus(t)
    \/ \E t \in 1..MaxThreads : Settle(t)
    \/ \E t \in 1..MaxThreads : FinallyRunning(t)
    \/ \E t \in 1..MaxThreads : FinallyPaused(t)
    \/ \E t \in 1..MaxThreads : FinallyDisconnect(t)
SpecDetection == Init /\ [][NextDetection]_vars

\* ------------------------------------------- the physics loop step by step
\* The tick of lines 341-392 taken call by call through its physics loop, for
\* missions deployed through the racing deploy handlers, with no pause, no
\* abort and an undisturbed drone.

\* forces of line 385, computed by thread t for the target its tick has set
Forces(t) == [by |-> t, target |-> threads[t].virtual_pos]

\* Lines 341-385: read the pose, publish it, update the virtual target,
\* compute the control and the forces
TickControl(t) ==
    /\ At(t, "tick")
    /\ connected
    /\ LET th == UpdateVirtualTarget(threads[t], drone_pos)
       IN  /\ current_position' = drone_pos
           /\ current_waypoint' = threads[t].current_wp_idx
           /\ Set(t, [th EXCEPT !.pc = "apply", !.sim_i = 0])
    /\ UNCHANGED <<farms_db, ctrl, returned, is_running, is_paused, drone_id, total_waypoints, status,
                   simulation_thread, command_queue, current_farm, physics, req, nevents>>

\* Lines 387-390: the four calls of p.applyExternalForce
ApplyForces(t) ==
    /\ At(t, "apply")
    /\ IF connected
       THEN /\ external_forces' = external_forces \cup {Forces(t)}
            /\ Goto(t, "step")
       ELSE /\ Raise(t)
            /\ UNCHANGED external_forces
    /\ UNCHANGED <<farms_db, ctrl, returned, shared, connected, drone_pos, req, nevents>>

\* Lines 391-392 and 386: p.stepSimulation() moves the drone under the forces
\* applied since the step before and clears them; after SIM_STEPS passes the
\* physics loop is left with the drone where the control has steered it
StepPhysics(t) ==
    /\ At(t, "step")
    /\ IF connected
       THEN /\ external_forces' = {}
            /\ IF threads[t].sim_i + 1 = SIM_STEPS
               THEN /\ drone_pos' = StepSimulation(threads[t].virtual_pos, FALSE)
                    /\ Set(t, [threads[t] EXCEPT !.pc = "loop", !.sim_i = @ + 1])
               ELSE /\ UNCHANGED drone_pos
                    /\ Set(t, [threads[t] EXCEPT !.pc = "apply", !.sim_i = @ + 1])
       ELSE /\ Raise(t)
            /\ UNCHANGED <<external_forces, drone_pos>>
    /\ UNCHANGED <<farms_db, ctrl, returned, shared, connected, req, nevents>>

NextPhysicsSteps ==
    \/ DeployRejected
    \/ \E farm_id \in FarmIds : DeployAccepted(farm_id)
    \/ \E i \in 1..MaxThreads : DeployStart(i)
    \/ \E t \in 1..MaxThreads : BeginMission(t)
    \/ \E t \in 1..MaxThreads : AnnounceFlying(t)
    \/ \E t \in 1..MaxThreads : ReadBounds(t)
    \/ \E t \in 1..MaxThreads : SetupDisconnect(t)
    \/ \E t \in 1..MaxThreads : SetupConnect(t)
    \/ \E t \in 1..MaxThreads : PlanMission(t)
    \/ \E t \in 1..MaxThreads : LoopExit(t)
    \/ \E t \in 1..MaxThreads : PollEmpty(t)
    \/ \E t \in 1..MaxThreads : PauseWait(t)
    \/ \E t \in 1..MaxThreads : TickControl(t)
    \/ \E t \in 1..MaxThreads : ApplyForces(t)
    \/ \E t \in 1..MaxThreads : StepPhysics(t)
    \/ \E t \in 1..MaxThreads : TickRaises(t)
    \/ \E t \in 1..MaxThreads : FinishStatus(t)
    \/ \E t \in 1..MaxThreads : Settle(t)
    \/ \E t \in 1..MaxThreads : Except(t)
    \/ \E t \in 1..MaxThreads : FinallyRunning(t)
    \/ \E t \in 1..MaxThreads : FinallyPaused(t)
    \/ \E t \in 1..MaxThreads : FinallyDisconnect(t)
SpecPhysicsSteps == Init /\ [][NextPhysicsSteps]_vars

\* ------------------------------------------------------------- controller
\* DSLPIDControl.  Errors, angles and error integrals are counted in
\* hundredths (of a metre, a radian, a metre second, a radian second), motor
\* commands (PWM) and torques in units, motor speeds (RPM) in ten-thousandths.
\* control_timestep is 1/CTRL_HZ seconds (app.py line 283), so an error times
\* control_timestep is the error divided by CTRL_HZ.

\* np.clip(v, lo, hi) on one number
Clip(v, lo, hi) == IF v < lo THEN lo ELSE IF v > hi THEN hi ELSE v

\* Line 59: the clip of every component of integral_pos_e (2.)
INTEGRAL_POS_E_CLIP == 200
\* Line 60: the clip of its vertical component (.15)
INTEGRAL_POS_E_Z_CLIP == 15
\* Line 80: MAX_TILT = 0.5
MAX_TILT == 50
\* Lines 25-28
PWM2RPM_SCALE == 2685
PWM2RPM_CONST == 40703000
MIN_PWM == 20000
MAX_PWM == 65535

\* Lines 58-60 without line 60
PositionIntegral_NoVerticalClip(integral_pos_e, pos_e) ==
    [i \in 1..3 |-> Clip(integral_pos_e[i] + pos_e[i] \div CTRL_HZ,
                         -INTEGRAL_POS_E_CLIP, INTEGRAL_POS_E_CLIP)]

\* Lines 58-60: integral_pos_e + pos_e*control_timestep, clipped to +-2, its
\* vertical component then clipped to +-0.15
PositionIntegral(integral_pos_e, pos_e) ==
    LET summed == [i \in 1..3 |-> integral_pos_e[i] + pos_e[i] \div CTRL_HZ]
        clipped == [i \in 1..3 |-> Clip(summed[i], -INTEGRAL_POS_E_CLIP,
                                        INTEGRAL_POS_E_CLIP)]
    IN  [clipped EXCEPT ![3] = Clip(clipped[3], -INTEGRAL_POS_E_Z_CLIP,
                                    INTEGRAL_POS_E_Z_CLIP)]

\* Line 68: the PWM command whose motor speed is the given one (speed is
\* math.sqrt(scalar_thrust / (4*KF)), in RPM)
ThrustCommand(speed) == (speed * 10000 - PWM2RPM_CONST) \div PWM2RPM_SCALE

\* Lines 81-82 without line 82
ClampTilt_RollOnly(target_euler) ==
    [target_euler EXCEPT ![1] = Clip(target_euler[1], -MAX_TILT, MAX_TILT)]

\* Lines 81-82: roll and pitch of target_euler clipped to +-MAX_TILT; the yaw
\* is left as it is
ClampTilt(target_euler) ==
    [target_euler EXCEPT ![1] = Clip(target_euler[1], -MAX_TILT, MAX_TILT),
                         ![2] = Clip(target_euler[2], -MAX_TILT, MAX_TILT)]

\* The position errors of one tick, per axis: one that takes the integral
\* from zero to its limit and one that takes it far beyond, in both directions.
PosErrBig == 100000
PosErrStep == 200
PosErrStepZ == 15
PosErrors ==
    LET xy == {-PosErrBig, -PosErrStep, PosErrStep, PosErrBig}
        z == {-PosErrBig, -PosErrStepZ, PosErrStepZ, PosErrBig}
    IN  {<<ex * CTRL_HZ, ey * CTRL_HZ, ez * CTRL_HZ>> : ex \in xy, ey \in xy, ez \in z}
\* math.sqrt(scalar_thrust / (4*KF)) of line 68: no thrust, and the speed
\* that carries the drone's weight
HoverSpeed == 14468
MotorSpeeds == {0, HoverSpeed}
\* Rotation.as_euler (line 76) yields angles in [-pi, pi]: roll and pitch of
\* the target rotation before the clamp
Pi == 314
TiltStep == 30
RawTilts == {-Pi, TiltStep, Pi}

\* The yaw of the target rotation (line 76): none, or half a turn
RawYaws == {0, Pi}

\* Line 84 with >= in place of >
EulerOutsideRange_AtPi(target_euler) == \E i \in 1..3 : Abs(target_euler[i]) >= Pi

\* Line 84: np.any(np.abs(target_euler) > math.pi)
EulerOutsideRange(target_euler) == \E i \in 1..3 : Abs(target_euler[i]) > Pi

\* _dslPIDPositionControl (lines 51-87) for one tick with position error
\* pos_e.  speed is the square root of line 68 and roll, pitch, yaw are the
\* Euler angles of line 76 (the trigonometry of lines 63-76 is not computed:
\* the values are drawn).  Beside the value returned, the Euler angles before
\* the clamp are kept, and whether the message of line 85 was printed.
dslPIDPositionControl(pos_e, speed, roll, pitch, yaw) ==
    LET target_euler == ClampTilt(<<roll, pitch, yaw>>)
    IN  /\ ctrl' = [ctrl EXCEPT
                      !.integral_pos_e = PositionIntegral(ctrl.integral_pos_e, pos_e)]
        /\ returned' = [fn |-> "_dslPIDPositionControl",
                        value |-> [thrust |-> ThrustCommand(speed),
                                   target_euler |-> target_euler],
                        euler |-> <<roll, pitch, yaw>>,
                        error_printed |-> EulerOutsideRange(target_euler)]
        /\ UNCHANGED <<farms_db, shared, physics, threads, req, nevents>>

\* ctrl = DSLPIDControl(...) (app.py line 291): a new controller, reset
NewController ==
    /\ ctrl # reset
    /\ ctrl' = reset
    /\ returned' = NothingReturned
    /\ UNCHANGED <<farms_db, shared, physics, threads, req, nevents>>

PositionControlTick ==
    \E pos_e \in PosErrors, speed \in MotorSpeeds, roll \in RawTilts, pitch \in RawTilts,
       yaw \in RawYaws :
        dslPIDPositionControl(pos_e, speed, roll, pitch, yaw)

NextPositionControl == PositionControlTick \/ NewController
SpecPositionControl == Init /\ [][NextPositionControl]_vars

\* Lines 21-23: the attitude gains for roll, pitch and yaw
P_COEFF_TOR == <<70000, 70000, 60000>>
I_COEFF_TOR == <<0, 0, 500>>
D_COEFF_TOR == <<20000, 20000, 12000>>
\* Line 33: MIXER_MATRIX of DroneModel.CF2P, the model app.py builds (line 291)
MIXER_MATRIX == << <<0, -1, -1>>, <<1, 0, 1>>, <<0, 1, -1>>, <<-1, 0, 1>> >>
\* Line 100: the clip of every component of integral_rpy_e (2.)
INTEGRAL_RPY_E_CLIP == 200
\* Line 101: the clip of its roll and pitch components (1.)
INTEGRAL_RP_E_CLIP == 100
\* Line 103: the clip of the target torques
TORQUE_CLIP == 3200

\* Lines 99-101 without line 101
AttitudeIntegral_NoTiltClip(integral_rpy_e, rot_e) ==
    [i \in 1..3 |-> Clip(integral_rpy_e[i] - rot_e[i] \div CTRL_HZ,
                         -INTEGRAL_RPY_E_CLIP, INTEGRAL_RPY_E_CLIP)]

\* Lines 99-101: integral_rpy_e - rot_e*control_timestep, clipped to +-2, its
\* roll and pitch components then clipped to +-1
AttitudeIntegral(integral_rpy_e, rot_e) ==
    LET summed == [i \in 1..3 |-> integral_rpy_e[i] - rot_e[i] \div CTRL_HZ]
        clipped == [i \in 1..3 |-> Clip(summed[i], -INTEGRAL_RPY_E_CLIP,
                                        INTEGRAL_RPY_E_CLIP)]
    IN  [i \in 1..3 |-> IF i <= 2
                        THEN Clip(clipped[i], -INTEGRAL_RP_E_CLIP, INTEGRAL_RP_E_CLIP)
                        ELSE clipped[i]]

\* Line 97 with target_rpy_rates at zero, as app.py leaves it
RpyRatesError(cur_rpy, last_rpy) ==
    [i \in 1..3 |-> 0 - (cur_rpy[i] - last_rpy[i]) * CTRL_HZ]

\* Line 102 without line 103
TargetTorques_NoClip(rot_e, rpy_rates_e, integral_rpy_e) ==
    [i \in 1..3 |->
        (0 - P_COEFF_TOR[i] * rot_e[i] + D_COEFF_TOR[i] * rpy_rates_e[i]
           + I_COEFF_TOR[i] * integral_rpy_e[i]) \div 100]

\* Lines 102-103: the PID torques from the rotation error, the rate error and
\* the (updated) integral, each clipped to +-3200
TargetTorques(rot_e, rpy_rates_e, integral_rpy_e) ==
    [i \in 1..3 |->
        Clip((0 - P_COEFF_TOR[i] * rot_e[i] + D_COEFF_TOR[i] * rpy_rates_e[i]
                + I_COEFF_TOR[i] * integral_rpy_e[i]) \div 100,
             -TORQUE_CLIP, TORQUE_CLIP)]

\* np.dot(MIXER_MATRIX, target_torques)[m]
Mix(m, target_torques) ==
    MIXER_MATRIX[m][1] * target_torques[1] + MIXER_MATRIX[m][2] * target_torques[2]
        + MIXER_MATRIX[m][3] * target_torques[3]

\* Lines 104 and 106 without line 105
MotorSpeeds_NoPwmClip(thrust, target_torques) ==
    [m \in 1..4 |-> PWM2RPM_SCALE * (thrust + Mix(m, target_torques)) + PWM2RPM_CONST]

\* Lines 104-106: the four PWM commands, clipped to [MIN_PWM, MAX_PWM], and
\* the motor speeds PWM2RPM_SCALE * pwm + PWM2RPM_CONST returned for them
MotorSpeedsReturned(thrust, target_torques) ==
    LET pwm == [m \in 1..4 |-> Clip(thrust + Mix(m, target_torques), MIN_PWM, MAX_PWM)]
    IN  [m \in 1..4 |-> PWM2RPM_SCALE * pwm[m] + PWM2RPM_CONST]

\* Lines 104-105: the four PWM commands the returned speeds are computed from
MotorCommands(thrust, target_torques) ==
    [m \in 1..4 |-> Clip(thrust + Mix(m, target_torques), MIN_PWM, MAX_PWM)]

\* The rotation errors of one tick, per axis: none, and one that takes the
\* integral from zero to its limit, in both directions.
RotErrStep == 100
RotErrStepYaw == 200
RotErrors ==
    LET rp == {-RotErrStep, 0, RotErrStep}
        yaw == {-RotErrStepYaw, 0, RotErrStepYaw}
    IN  {<<er * CTRL_HZ, ep * CTRL_HZ, ey * CTRL_HZ>> : er \in rp, ep \in rp, ey \in yaw}
\* The thrust commands (PWM): the ones line 68 yields for no thrust and for
\* hover, and one beyond MAX_PWM
ThrustBeyond == 70000
ThrustCommands == {ThrustCommand(0), ThrustCommand(HoverSpeed), ThrustBeyond}
\* The drone's roll, pitch and yaw: level, or rolled by a hundredth
Attitudes == {Zeros3, <<1, 0, 0>>}

\* _dslPIDAttitudeControl (lines 89-106) for one tick with thrust command
\* thrust, rotation error rot_e (line 96; the rotation algebra of lines 90-96
\* is not computed: the value is drawn) and attitude cur_rpy.  Beside the
\* value returned, the locals target_torques and pwm of the call are kept.
dslPIDAttitudeControl(thrust, rot_e, cur_rpy) ==
    LET rpy_rates_e == RpyRatesError(cur_rpy, ctrl.last_rpy)
        integral_rpy_e == AttitudeIntegral(ctrl.integral_rpy_e, rot_e)
        target_torques == TargetTorques(rot_e, rpy_rates_e, integral_rpy_e)
    IN  /\ ctrl' = [ctrl EXCEPT !.last_rpy = cur_rpy,
                                !.integral_rpy_e = integral_rpy_e]
        /\ returned' = [fn |-> "_dslPIDAttitudeControl",
                        value |-> MotorSpeedsReturned(thrust, target_torques),
                        target_torques |-> target_torques,
                        pwm |-> MotorCommands(thrust, target_torques)]
        /\ UNCHANGED <<farms_db, shared, physics, threads, req, nevents>>

AttitudeControlTick ==
    \E thrust \in ThrustCommands, rot_e \in RotErrors, cur_rpy \in Attitudes :
        dslPIDAttitudeControl(thrust, rot_e, cur_rpy)

NextAttitudeControl == AttitudeControlTick \/ NewController
SpecAttitudeControl == Init /\ [][NextAttitudeControl]_vars

\* ------------------------------------------ the controller inside a mission
\* The tick with the state of the mission's controller object, for missions
\* deployed one after the other, with no pause, no abort and an undisturbed
\* drone.

\* One unit of the position lattice in the controller's position unit times
\* CTRL_HZ: a position error of one lattice unit adds one to the integral
PosErrPerUnit == 48
\* target_pos - cur_pos (DSLPIDControl.py line 53)
PosError(target_pos, cur_pos) ==
    [i \in 1..3 |-> (target_pos[i] - cur_pos[i]) * PosErrPerUnit]
\* The attitude of the drone at a tick and the rotation error it gives
\* (DSLPIDControl.py lines 90-96): level, or rolled
TickAttitudes ==
    { [cur_rpy |-> Zeros3, rot_e |-> Zeros3],
      [cur_rpy |-> <<1, 0, 0>>, rot_e |-> <<RotErrStep * CTRL_HZ, 0, 0>>] }

\* computeControl with line 45 left out
computeControl_CounterKept(c, pos_e, rot_e, cur_rpy) ==
    [control_counter |-> c.control_counter,
     integral_pos_e |-> PositionIntegral(c.integral_pos_e, pos_e),
     integral_rpy_e |-> AttitudeIntegral(c.integral_rpy_e, rot_e),
     last_rpy |-> cur_rpy]

\* computeControl (DSLPIDControl.py lines 44-49) on the controller c: the
\* state it leaves in the object
computeControl(c, pos_e, rot_e, cur_rpy) ==
    [control_counter |-> c.control_counter + 1,
     integral_pos_e |-> PositionIntegral(c.integral_pos_e, pos_e),
     integral_rpy_e |-> AttitudeIntegral(c.integral_rpy_e, rot_e),
     last_rpy |-> cur_rpy]

\* Lines 341-392 with the controller's state: Tick(t, FALSE), and line 374
\* run on the thread's own controller
ControlTick(t) ==
    /\ At(t, "tick")
    /\ connected
    /\ \E a \in TickAttitudes :
        LET th == UpdateVirtualTarget(threads[t], drone_pos)
            pos_e == PosError(th.virtual_pos, drone_pos)
        IN  /\ current_position' = drone_pos
            /\ current_waypoint' = threads[t].current_wp_idx
            /\ drone_pos' = StepSimulation(th.virtual_pos, FALSE)
            /\ external_forces' = {}
            /\ Set(t, [th EXCEPT !.pc = "loop", !.sim_i = SIM_STEPS,
                                 !.ctrl = computeControl(threads[t].ctrl, pos_e,
                                                         a.rot_e, a.cur_rpy)])
    /\ UNCHANGED <<farms_db, ctrl, returned, is_running, is_paused, drone_id, total_waypoints, status,
                   simulation_thread, command_queue, current_farm, connected, req, nevents>>

\* Missions deployed one after the other, each flown to its end
NextMissionControl ==
    \/ \E farm_id \in FarmIds : DeployAlone(farm_id)
    \/ \E i \in 1..MaxThreads : DeployStart(i)
    \/ \E t \in 1..MaxThreads : BeginMission(t)
    \/ \E t \in 1..MaxThreads : AnnounceFlying(t)
    \/ \E t \in 1..MaxThreads : ReadBounds(t)
    \/ \E t \in 1..MaxThreads : SetupDisconnect(t)
    \/ \E t \in 1..MaxThreads : SetupConnect(t)
    \/ \E t \in 1..MaxThreads : PlanMission(t)
    \/ \E t \in 1..MaxThreads : LoopExit(t)
    \/ \E t \in 1..MaxThreads : PollEmpty(t)
    \/ \E t \in 1..MaxThreads : PauseWait(t)
    \/ \E t \in 1..MaxThreads : ControlTick(t)
    \/ \E t \in 1..MaxThreads : FinishStatus(t)
    \/ \E t \in 1..MaxThreads : Settle(t)
    \/ \E t \in 1..MaxThreads : FinallyRunning(t)
    \/ \E t \in 1..MaxThreads : FinallyPaused(t)
    \/ \E t \in 1..MaxThreads : FinallyDisconnect(t)
SpecMissionControl == InitPerfect /\ [][NextMissionControl]_vars

\* ---------------------------------------------------------- planner alone
\* The planner applied to fields and sweep steps of any kind the claim admits:
\* corners within -CoordBelow..CoordMax with min <= max on both axes, steps
\* within 1..MaxSweepStep.
CoordBelow == 1
CoordMax == 2
Coords == (0 - CoordBelow)..CoordMax
MaxSweepStep == 2
Fields ==
    {f \in [min_x : Coords, min_y : Coords, max_x : Coords, max_y : Coords] :
        f.min_x <= f.max_x /\ f.min_y <= f.max_y}

\* app.py, get_sweep_waypoints(field_min, field_max, HOVER_ALTITUDE, sweep_step):
\* home is the origin, where setup_simulation puts the drone (line 194)
PlanSweep(f, sweep_step) ==
    /\ returned' = [fn |-> "get_sweep_waypoints",
                    args |-> [home |-> <<0, 0>>, field |-> f, sweep_step |-> sweep_step],
                    value |-> get_sweep_waypoints(<<f.min_x, f.min_y>>,
                                                  <<f.max_x, f.max_y>>,
                                                  HOVER_ALTITUDE, sweep_step)]
    /\ UNCHANGED <<farms_db, shared, physics, threads, req, nevents, ctrl>>

\* drone_sweeper.py, get_sweep_waypoints(start_pos, ...): home is start_pos,
\* START_MARGIN outside the field's min corner (lines 422-451)
PlanSweepFromStart(f, sweep_step) ==
    LET start_pos == <<f.min_x - START_MARGIN, f.min_y - START_MARGIN, START_Z>>
    IN  /\ returned' = [fn |-> "drone_sweeper.get_sweep_waypoints",
                        args |-> [home |-> <<start_pos[1], start_pos[2]>>, field |-> f,
                                  sweep_step |-> sweep_step],
                        value |-> sweeper_get_sweep_waypoints(
                                      start_pos, <<f.min_x, f.min_y>>,
                                      <<f.max_x, f.max_y>>, HOVER_ALTITUDE, sweep_step)]
        /\ UNCHANGED <<farms_db, shared, physics, threads, req, nevents, ctrl>>

NextPlanner ==
    \/ \E f \in Fields, sweep_step \in 1..MaxSweepStep : PlanSweep(f, sweep_step)
    \/ \E f \in Fields, sweep_step \in 1..MaxSweepStep : PlanSweepFromStart(f, sweep_step)
SpecPlanner == Init /\ [][NextPlanner]_vars

\* ------------------------------------------------- planner loop, in floats
\* current_y, y_max and sweep_step are Python floats: numbers with
\* FLOAT_MANT_DIG significant binary digits (53 in the program, fewer here),
\* and current_y += sweep_step rounds the exact sum to the nearest of them,
\* ties to the even significand.
FLOAT_MANT_DIG == 3
RECURSIVE Pow2(_)
Pow2(n) == IF n = 0 THEN 1 ELSE 2 * Pow2(n - 1)
\* The spacing of the floats around the magnitude x >= 0
RECURSIVE Ulp(_)
Ulp(x) == IF x < Pow2(FLOAT_MANT_DIG) THEN 1 ELSE 2 * Ulp(x \div 2)
RoundToFloat(x) ==
    LET u == Ulp(Abs(x))
        q == Abs(x) \div u
        r == Abs(x) % u
        up == 2 * r > u \/ (2 * r = u /\ q % 2 = 1)
    IN  Sign(x) * (IF up THEN q + 1 ELSE q) * u
FloatAdd(a, b) == RoundToFloat(a + b)

\* The y coordinates of the fields planned: small ones, and the first floats
\* of the two ranges in which neighbouring floats lie 2 and 4 apart.
FloatCoords == {0, 1, 2, Pow2(FLOAT_MANT_DIG), Pow2(FLOAT_MANT_DIG + 1)}
SweepSteps == 1..MaxSweepStep

PlannerRunning == returned.fn = "get_sweep_waypoints: line 237"

\* get_sweep_waypoints is called (lines 222-235) for a field from y_min to
\* y_max.  Of the call's frame current_y and going_right are kept: the points
\* appended to waypoints decide nothing in the loop.
PlannerCall(y_min, y_max, sweep_step) ==
    /\ ~PlannerRunning
    /\ returned' = [fn |-> "get_sweep_waypoints: line 237",
                    args |-> [y_min |-> y_min, y_max |-> y_max, sweep_step |-> sweep_step],
                    current_y |-> y_min, going_right |-> TRUE]
    /\ UNCHANGED <<farms_db, shared, physics, threads, req, nevents, ctrl>>

\* Lines 237-250: one pass of the loop
SweepLoopPass ==
    /\ PlannerRunning
    /\ returned.current_y <= returned.args.y_max
    /\ returned' = [returned EXCEPT
                      !.current_y = FloatAdd(@, returned.args.sweep_step),
                      !.going_right = ~@]
    /\ UNCHANGED <<farms_db, shared, physics, threads, req, nevents, ctrl>>

\* Lines 237, 252-256: the loop is left, home and landing point are appended
\* and the sequence is returned
SweepLoopExit ==
    /\ PlannerRunning
    /\ returned.current_y > returned.args.y_max
    /\ returned' = [fn |-> "get_sweep_waypoints: returned", args |-> returned.args]
    /\ UNCHANGED <<farms_db, shared, physics, threads, req, nevents, ctrl>>

PlannerStep == SweepLoopPass \/ SweepLoopExit
NextPlannerLoop ==
    \/ \E y_min \in FloatCoords, y_max \in FloatCoords, sweep_step \in SweepSteps :
          PlannerCall(y_min, y_max, sweep_step)
    \/ SweepLoopPass
    \/ SweepLoopExit
\* The thread that called the planner keeps running it.
SpecPlannerLoop == Init /\ [][NextPlannerLoop]_vars /\ WF_vars(PlannerStep)

\* ============================================================ properties
\* Thread t is inside its tick loop.
InMission(t) == t \in ThreadIds /\ threads[t].pc \in LoopPcs

\* C1: at most one mission task is active at any time, for every
\* interleaving of deploy requests: no two mission tick loops run
\* simultaneously.
C1_OneMissionAtATime ==
    \A t1, t2 \in ThreadIds : (InMission(t1) /\ InMission(t2)) => t1 = t2

\* C2: a mission during which an abort request was accepted and queued (at a
\* valid waypoint index, at any point of the tick loop) never ends with the
\* terminal status 'completed'.
C2_AcceptedAbortNeverCompletes ==
    \A t \in ThreadIds :
        threads[t].abort_accepted => threads[t].outcome # "completed"

\* The step by which thread t consumes its first abort and reads the drone's
\* position.
ConsumesFirstAbort(t) ==
    /\ At(t, "loop")
    /\ ~threads[t].abort_initiated
    /\ threads'[t].abort_initiated
    /\ threads'[t].pc = "pause"

\* C3: when the mission loop consumes its first abort at waypoint index k,
\* in that same tick the waypoint sequence becomes exactly [the drone's x,y
\* at hover altitude; home at hover altitude; home at the landing height],
\* the index becomes 0, the virtual reference equals the drone's position,
\* waiting is false, the dwell timer is 0 and the status is 'returning_home'.
C3_AbortReplansFromDronePosition ==
    [][\A t \in ThreadIds :
          ConsumesFirstAbort(t) =>
              /\ threads'[t].waypoints =
                    << <<drone_pos[1], drone_pos[2], HOVER_ALTITUDE>>,
                       <<0, 0, HOVER_ALTITUDE>>,
                       <<0, 0, LAND_Z>> >>
              /\ threads'[t].current_wp_idx = 0
              /\ threads'[t].virtual_pos = drone_pos
              /\ threads'[t].is_waiting = FALSE
              /\ threads'[t].wait_timer = 0
              /\ status' = "returning_home"]_vars

\* C3 witness: an abort has just been consumed with the drone away from home.
C3_Witness ==
    \E t \in ThreadIds :
        /\ threads[t].pc = "pause"
        /\ threads[t].abort_initiated
        /\ threads[t].current_wp_idx = 0
        /\ Len(threads[t].waypoints) = Len(ReturnHomeWaypoints(drone_pos))
        /\ threads[t].virtual_pos = drone_pos
        /\ drone_pos[1] # 0
        /\ current_waypoint > 0
        /\ status = "returning_home"

\* C4 as stated: while the paused flag is true, no mission's loop index and
\* not the published current_waypoint change, for any moment at which the
\* flag was set.
C4_PausedFlagFreezesIndex ==
    [][(is_paused /\ is_paused') =>
          /\ current_waypoint' = current_waypoint
          /\ \A t \in ThreadIds :
                (Alive(t) /\ threads'[t].pc \notin EndedPcs) =>
                    threads'[t].current_wp_idx = threads[t].current_wp_idx]_vars

\* C4 amended: once a mission loop has reached its pause check with the
\* paused flag true, that task stays at the check, its waypoint index does
\* not change and, it being the only live task, the published
\* current_waypoint does not change either.
C4_PauseWaitFreezesIndex ==
    [][\A t \in ThreadIds :
          (At(t, "pause") /\ is_paused) =>
              /\ threads'[t].pc = "pause"
              /\ threads'[t].current_wp_idx = threads[t].current_wp_idx
              /\ (\A u \in ThreadIds \ {t} : ~Alive(u)) =>
                    current_waypoint' = current_waypoint]_vars

\* C4 witness: a mission is held at its pause check, part-way through its
\* waypoints.
C4_Witness ==
    \E t \in ThreadIds :
        /\ threads[t].pc = "pause"
        /\ is_paused
        /\ threads[t].current_wp_idx > 0
        /\ threads[t].current_wp_idx < Len(threads[t].waypoints)

\* Positions of a thread after an exception was caught or the try block left.
AfterTryPcs == {"except", "fin_running", "fin_paused", "fin_disconnect", "done"}

\* C6: if a step of a tick raises, the task runs no further tick, the status
\* is set to 'error' (not 'completed' or 'aborted'), and only the cleanup
\* remains before the task ends.
C6_FaultEndsMissionInError ==
    [][\A t \in ThreadIds :
          /\ (threads[t].pc \in LoopPcs /\ threads'[t].pc \notin LoopPcs
                 /\ threads[t].current_wp_idx < Len(threads[t].waypoints))
                => threads'[t].pc = "except"
          /\ (threads[t].pc = "except" /\ threads'[t].pc # "except")
                => /\ status' = "error"
                   /\ threads'[t].outcome = "error"
                   /\ threads'[t].pc = "fin_running"
          /\ threads[t].pc \in AfterTryPcs => threads'[t].pc \in AfterTryPcs
          /\ threads[t].outcome = "error" => threads'[t].outcome = "error"]_vars

\* C6 witness: a mission that raised part-way through its waypoints has had
\* its status set to 'error'.
C6_Witness ==
    \E t \in ThreadIds :
        /\ threads[t].pc = "fin_running"
        /\ threads[t].outcome = "error"
        /\ threads[t].current_wp_idx > 0
        /\ threads[t].current_wp_idx < Len(threads[t].waypoints)
        /\ status = "error"

\* A pause or an abort request arrives / a deploy request arrives.
StallOrAbortRequest ==
    StallRejected \/ StallAccepted \/ AbortRejected \/ AbortAccepted
DeployRequest ==
    DeployRejected \/ DeployNotFound \/ \E farm_id \in FarmIds : DeployAccepted(farm_id)

\* C7: a pause or abort request made while no mission is running, and a
\* deploy request made while a mission is running, is rejected and leaves
\* every shared field, the mission threads and the handlers unchanged.
C7_RejectedRequestsChangeNothing ==
    [][/\ (StallOrAbortRequest /\ ~is_running)
            => UNCHANGED <<shared, physics, threads, req>>
       /\ (DeployRequest /\ is_running)
            => UNCHANGED <<shared, physics, threads, req>>]_vars

\* C7 witness: one request was accepted (the deploy whose thread has just
\* set is_running) and another request has left no trace.
C7_Witness ==
    /\ Len(threads) = 1
    /\ threads[1].pc = "announce"
    /\ is_running
    /\ nevents > 1
    /\ req = NoRequests
    /\ command_queue = <<>>
    /\ ~is_paused
    /\ status = "deploying"

\* C9: whenever the status is 'flying', a mission's waypoint sequence exists
\* and its index satisfies 0 <= index < length of the sequence.
C9_FlyingHasValidIndex ==
    status = "flying" =>
        /\ \E t \in ThreadIds : Alive(t)
        /\ \A t \in ThreadIds :
              Alive(t) => /\ threads[t].waypoints # <<>>
                          /\ threads[t].current_wp_idx >= 0
                          /\ threads[t].current_wp_idx < Len(threads[t].waypoints)

\* C10: once the status is 'returning_home' it never becomes 'stalled' or
\* 'flying' again in that mission (stated for runs in which one mission
\* thread only was ever started).
C10_NoResumeAfterReturningHome ==
    [][(Len(threads) = 1 /\ status = "returning_home")
          => status' \notin {"stalled", "flying"}]_vars

\* C5: whenever a mission task ends, for any reason (completion, abort
\* landing, or a fault raised anywhere in the task, including while reading
\* the farm boundaries before the tick loop), the running flag is false, the
\* paused flag is false and the physics connection has been released.
C5_TaskEndLeavesCleanState ==
    [][\A t \in ThreadIds :
          (Alive(t) /\ threads'[t].pc \in EndedPcs) =>
              (~is_running' /\ ~is_paused' /\ ~connected')]_vars

\* The waypoints planned for the mission of thread t.
PlannedWaypoints(t) ==
    LET b == FindFarm(threads[t].farm).boundaries
    IN  get_sweep_waypoints(<<b.min_x, b.min_y>>, <<b.max_x, b.max_y>>,
                            HOVER_ALTITUDE, SWEEP_STEP)

\* C8: with perfect tracking and no pause, abort or fault, a started mission
\* eventually reaches status 'completed'; before that its waypoint index
\* starts at 0 and only ever grows by one, up to the number of planned
\* waypoints, and the active goal is each time the planned waypoint of that
\* index.
C8_PerfectMissionCompletesInOrder ==
    /\ \A n \in 1..MaxThreads :
          (Len(threads) = n /\ threads[n].pc = "begin")
              ~> (Len(threads) = n /\ threads[n].outcome = "completed"
                     /\ status = "completed")
    /\ [][\A t \in ThreadIds :
             /\ threads[t].pc = "plan" => threads'[t].current_wp_idx = 0
             /\ (threads[t].pc \in LoopPcs /\ threads'[t].pc \in LoopPcs) =>
                   threads'[t].current_wp_idx \in
                      {threads[t].current_wp_idx, threads[t].current_wp_idx + 1}
             /\ threads'[t].pc = "finish" =>
                   threads'[t].current_wp_idx = Len(PlannedWaypoints(t))]_vars
    /\ [](\A t \in ThreadIds :
             InTickLoop(threads[t]) =>
                threads[t].waypoints[threads[t].current_wp_idx + 1]
                    = PlannedWaypoints(t)[threads[t].current_wp_idx + 1])

\* C8 witness: a mission over the two-row field has completed after its last
\* planned waypoint.
C8_Witness ==
    \E t \in ThreadIds :
        /\ threads[t].pc = "settle"
        /\ threads[t].farm = 2
        /\ threads[t].current_wp_idx = Len(PlannedWaypoints(t))
        /\ threads[t].current_wp_idx > 4
        /\ status = "completed"

\* The step by which thread t, its first abort consumed, takes a further
\* abort from the queue.
ConsumesFurtherAbort(t) ==
    /\ At(t, "loop")
    /\ threads[t].abort_initiated
    /\ threads'[t].aborts_polled = threads[t].aborts_polled + 1

\* C11: abort is consumed at most once per mission and is idempotent
\* afterwards: once the first abort has been consumed the mission stays
\* abort-initiated, and consuming a further abort leaves the waypoint
\* sequence, the waypoint index, the virtual reference, the waiting flag, the
\* dwell timer and the status unchanged.
C11_FurtherAbortsChangeNothing ==
    [][\A t \in ThreadIds :
          /\ (threads[t].abort_initiated /\ threads'[t].pc \notin EndedPcs)
                => threads'[t].abort_initiated
          /\ ConsumesFurtherAbort(t) =>
                /\ threads'[t].waypoints = threads[t].waypoints
                /\ threads'[t].current_wp_idx = threads[t].current_wp_idx
                /\ threads'[t].virtual_pos = threads[t].virtual_pos
                /\ threads'[t].is_waiting = threads[t].is_waiting
                /\ threads'[t].wait_timer = threads[t].wait_timer
                /\ status' = status]_vars

\* C11 witness: a mission on its return path has taken a second abort from
\* the queue, part-way through that path.
C11_Witness ==
    \E t \in ThreadIds :
        /\ threads[t].pc = "pause"
        /\ threads[t].abort_initiated
        /\ threads[t].aborts_polled > 1
        /\ threads[t].current_wp_idx > 0
        /\ command_queue = <<>>

\* An abort has been accepted and no other API command is being served or
\* can still arrive.
AbortIsLastCommand ==
    /\ nevents = MaxEvents
    /\ req.deploy = <<>>
    /\ \A st \in StallStages : req.stall[st] = 0
    /\ (req.abort > 0 \/ command_queue # <<>>)

\* C12: an abort accepted while the mission is stalled (the task waits at its
\* pause check, status 'stalled'), with no further API command and the
\* mission task being scheduled, leads to status 'returning_home'.
C12_AbortWhileStalledTakesEffect ==
    \A t \in 1..MaxThreads :
        (/\ AbortIsLastCommand
         /\ t \in ThreadIds
         /\ threads[t].pc = "pause"
         /\ ~threads[t].abort_initiated
         /\ is_paused
         /\ status = "stalled")
            ~> (status = "returning_home")

\* Thread t has just executed the SIM_STEPS physics steps of a tick (lines
\* 385-392) and is back at the top of its loop.
PhysicsStepped(t) ==
    At(t, "loop") /\ threads[t].sim_i = SIM_STEPS

\* C13: while the paused flag is true and the mission task waits at its pause
\* check, physics steps keep being executed by the mission task: the task
\* gets to execute the physics steps of a tick, unless the flag is cleared
\* first.
C13_PhysicsStepsDuringPause ==
    \A t \in 1..MaxThreads :
        (At(t, "pause") /\ is_paused) ~> (~is_paused \/ PhysicsStepped(t))

\* The condition of line 358 at the start of a tick of thread th, with the
\* drone at cur_pos: waiting, dwell timer plus one control timestep at the
\* threshold, drone within the tracking tolerance of the virtual reference.
DwellOverAndOnTarget(th, cur_pos) ==
    /\ th.is_waiting
    /\ th.wait_timer + CTRL_TIMESTEP >= WAIT_TIME_AT_CORNER
    /\ NormSq(VSub(cur_pos, th.virtual_pos)) < TRACK_TOL * TRACK_TOL

\* A step of thread t inside its tick loop; the control tick itself.
LoopStep(t) ==
    t \in ThreadIds /\ threads[t].pc \in LoopPcs /\ threads'[t].pc \in LoopPcs
TickStep(t) == At(t, "tick") /\ threads'[t].pc = "loop"

ToggleStores ==
    req'.stall["status"] = req.stall["status"] + 1

\* C15: each accepted pause toggle flips the paused flag exactly once, in any
\* interleaving of concurrent requests: the store of every toggle leaves the
\* flag the negation of what it was (so that after n toggles the flag is
\* "n is odd", and two toggles restore it).
C15_EveryToggleFlipsTheFlag ==
    [][ToggleStores => (is_paused' = ~is_paused)]_vars

\* C16: after every tick of the position controller each component of the
\* position-error integral lies within [-2, 2] and its vertical component
\* within [-0.15, 0.15].
C16_PositionIntegralClamped ==
    /\ \A i \in 1..3 : /\ ctrl.integral_pos_e[i] >= -INTEGRAL_POS_E_CLIP
                       /\ ctrl.integral_pos_e[i] <= INTEGRAL_POS_E_CLIP
    /\ ctrl.integral_pos_e[3] >= -INTEGRAL_POS_E_Z_CLIP
    /\ ctrl.integral_pos_e[3] <= INTEGRAL_POS_E_Z_CLIP
\* Ticks of the position controller have left the integral at its upper limit
\* along x, at its lower limit along y and at its vertical limit along z.
C16_Witness ==
    /\ returned.fn = "_dslPIDPositionControl"
    /\ ctrl.integral_pos_e = <<INTEGRAL_POS_E_CLIP, -INTEGRAL_POS_E_CLIP,
                               INTEGRAL_POS_E_Z_CLIP>>

\* C18: the target roll and the target pitch the position controller returns
\* lie within [-0.5, 0.5] rad, whatever the target rotation's Euler angles.
C18_TargetTiltClamped ==
    returned.fn = "_dslPIDPositionControl"
        => \A i \in 1..2 : /\ returned.value.target_euler[i] >= -MAX_TILT
                           /\ returned.value.target_euler[i] <= MAX_TILT
\* The position controller has returned a roll cut down to MAX_TILT, from a
\* target rotation rolled by pi, and a pitch below the limit, passed as it is.
C18_Witness ==
    /\ returned.fn = "_dslPIDPositionControl"
    /\ returned.value.target_euler = <<MAX_TILT, TiltStep, 0>>

\* C17: after every update of the attitude controller the roll and pitch
\* components of the attitude-error integral lie within [-1, 1] and its yaw
\* component within [-2, 2].
C17_AttitudeIntegralClamped ==
    /\ \A i \in 1..2 : /\ ctrl.integral_rpy_e[i] >= -INTEGRAL_RP_E_CLIP
                       /\ ctrl.integral_rpy_e[i] <= INTEGRAL_RP_E_CLIP
    /\ ctrl.integral_rpy_e[3] >= -INTEGRAL_RPY_E_CLIP
    /\ ctrl.integral_rpy_e[3] <= INTEGRAL_RPY_E_CLIP
\* Updates of the attitude controller have left the integral at its upper
\* limit in roll, at its lower limit in pitch and at its upper limit in yaw.
C17_Witness ==
    /\ returned.fn = "_dslPIDAttitudeControl"
    /\ ctrl.integral_rpy_e = <<INTEGRAL_RP_E_CLIP, -INTEGRAL_RP_E_CLIP,
                               INTEGRAL_RPY_E_CLIP>>

\* C19, as stated: each of the four motor speeds the attitude controller
\* returns lies within the command bounds [MIN_PWM, MAX_PWM].
C19_SpeedsWithinCommandBounds ==
    returned.fn = "_dslPIDAttitudeControl"
        => \A m \in 1..4 : /\ returned.value[m] >= MIN_PWM * 10000
                           /\ returned.value[m] <= MAX_PWM * 10000
\* C19, amended: each of the four motor speeds the attitude controller returns
\* lies between the speeds of the two command bounds,
\* PWM2RPM_SCALE * MIN_PWM + PWM2RPM_CONST and
\* PWM2RPM_SCALE * MAX_PWM + PWM2RPM_CONST.
C19_SpeedsWithinConvertedBounds ==
    returned.fn = "_dslPIDAttitudeControl"
        => \A m \in 1..4 :
              /\ returned.value[m] >= PWM2RPM_SCALE * MIN_PWM + PWM2RPM_CONST
              /\ returned.value[m] <= PWM2RPM_SCALE * MAX_PWM + PWM2RPM_CONST
\* The attitude controller has returned speeds of which one is that of the
\* upper command bound (the clip of line 105 has acted on its command) and
\* another lies strictly between the speeds of the two bounds.
C19_Witness ==
    /\ returned.fn = "_dslPIDAttitudeControl"
    /\ \E m \in 1..4 : returned.value[m] = PWM2RPM_SCALE * MAX_PWM + PWM2RPM_CONST
    /\ \E m \in 1..4 : /\ returned.value[m] > PWM2RPM_SCALE * MIN_PWM + PWM2RPM_CONST
                       /\ returned.value[m] < PWM2RPM_SCALE * MAX_PWM + PWM2RPM_CONST

PlannerApplied ==
    returned.fn \in {"get_sweep_waypoints", "drone_sweeper.get_sweep_waypoints"}
\* C20: for every field with min <= max on both axes and every sweep step > 0
\* the planned sequence starts with the takeoff point (home x, y at hover
\* altitude), ends with home at hover altitude followed by the landing point
\* (home x, y at landing height), and has more than 2 points between its
\* first and its last.
C20_PlanStartsAndEndsAtHome ==
    PlannerApplied =>
        LET waypoints == returned.value
            home == returned.args.home
            n == Len(waypoints)
        IN  /\ n - 2 > 2
            /\ waypoints[1] = <<home[1], home[2], HOVER_ALTITUDE>>
            /\ waypoints[n - 1] = <<home[1], home[2], HOVER_ALTITUDE>>
            /\ waypoints[n] = <<home[1], home[2], LAND_Z>>
\* The planner has planned a field whose min and max corners coincide, for a
\* home off the field: takeoff, the corner, the one row and the hop past it,
\* home, landing.
C20_Witness ==
    /\ returned.fn = "drone_sweeper.get_sweep_waypoints"
    /\ returned.args.field.min_x = returned.args.field.max_x
    /\ returned.args.field.min_y = returned.args.field.max_y
    /\ Len(returned.value) = 7

\* The rows of a planned sequence: after the takeoff point and the start
\* corner every pass of the loop of lines 237-250 has appended a row's start,
\* its end and the waypoint that leads to the next row; home and the landing
\* point follow.
SweepRowCount(waypoints) == (Len(waypoints) - 4) \div 3
SweepRow(waypoints, k) ==
    [start |-> waypoints[3 + 3 * k], end |-> waypoints[4 + 3 * k],
     next |-> waypoints[5 + 3 * k]]
FieldHeight == returned.args.field.max_y - returned.args.field.min_y

\* C21, as stated: the number of sweep rows planned is
\* ceil((max_y - min_y) / sweep_step) + 1.
C21_RowCountIsCeilPlusOne ==
    PlannerApplied =>
        /\ Len(returned.value) = 4 + 3 * SweepRowCount(returned.value)
        /\ SweepRowCount(returned.value)
             = (FieldHeight + returned.args.sweep_step - 1) \div returned.args.sweep_step + 1
\* C21, amended: the number of sweep rows planned is
\* floor((max_y - min_y) / sweep_step) + 1.
C21_RowCountIsFloorPlusOne ==
    PlannerApplied =>
        /\ Len(returned.value) = 4 + 3 * SweepRowCount(returned.value)
        /\ SweepRowCount(returned.value)
             = FieldHeight \div returned.args.sweep_step + 1
\* The planner has planned a field whose height is not a multiple of the sweep
\* step (height 1, step 2): one row.
C21_Witness ==
    /\ returned.fn = "get_sweep_waypoints"
    /\ FieldHeight = 1
    /\ returned.args.sweep_step = 2
    /\ SweepRowCount(returned.value) = 1

\* C22: row k of the planned sequence lies at y = min_y + k * sweep_step and
\* runs from min_x to max_x when k is even, from max_x to min_x when k is odd;
\* the waypoint after it has the x where the row ended and the y of the next
\* row; every row after the first starts at the x where the row before ended.
C22_RowsAlternate ==
    PlannerApplied =>
        LET f == returned.args.field
            row(k) == SweepRow(returned.value, k)
        IN  \A k \in 0..(SweepRowCount(returned.value) - 1) :
               LET y == f.min_y + k * returned.args.sweep_step
                   x_start == IF k % 2 = 0 THEN f.min_x ELSE f.max_x
                   x_end == IF k % 2 = 0 THEN f.max_x ELSE f.min_x
               IN  /\ row(k).start = <<x_start, y, HOVER_ALTITUDE>>
                   /\ row(k).end = <<x_end, y, HOVER_ALTITUDE>>
                   /\ row(k).next = <<x_end, y + returned.args.sweep_step, HOVER_ALTITUDE>>
                   /\ k > 0 => row(k).start[1] = row(k - 1).end[1]
\* The planner has planned three rows over a field wider than a point: the
\* second row runs back from max_x to min_x, the third out again.
C22_Witness ==
    /\ PlannerApplied
    /\ returned.args.field.min_x < returned.args.field.max_x
    /\ SweepRowCount(returned.value) = 3
    /\ SweepRow(returned.value, 1).start[1] = returned.args.field.max_x
    /\ SweepRow(returned.value, 2).start[1] = returned.args.field.min_x

\* C27: in every call of the attitude controller each torque the mixer uses
\* lies within [-3200, 3200], each of the four motor commands lies within
\* [MIN_PWM, MAX_PWM] before its conversion, and each returned motor speed is
\* the conversion of its command, hence within the converted bounds.
C27_TorquesAndCommandsClamped ==
    returned.fn = "_dslPIDAttitudeControl" =>
        /\ \A i \in 1..3 : /\ returned.target_torques[i] >= -TORQUE_CLIP
                           /\ returned.target_torques[i] <= TORQUE_CLIP
        /\ \A m \in 1..4 :
              /\ returned.pwm[m] >= MIN_PWM
              /\ returned.pwm[m] <= MAX_PWM
              /\ returned.value[m] = PWM2RPM_SCALE * returned.pwm[m] + PWM2RPM_CONST
              /\ returned.value[m] >= PWM2RPM_SCALE * MIN_PWM + PWM2RPM_CONST
              /\ returned.value[m] <= PWM2RPM_SCALE * MAX_PWM + PWM2RPM_CONST
\* A call of the attitude controller in which the roll torque was cut down to
\* the limit, the yaw torque lay inside it and was not zero, and one motor
\* command was raised to MIN_PWM.
C27_Witness ==
    /\ returned.fn = "_dslPIDAttitudeControl"
    /\ returned.target_torques[1] = TORQUE_CLIP
    /\ returned.target_torques[3] # 0
    /\ returned.target_torques[3] > -TORQUE_CLIP
    /\ returned.target_torques[3] < TORQUE_CLIP
    /\ \E m \in 1..4 : returned.pwm[m] = MIN_PWM

C30_PlannerTerminates ==
    \A y_min \in FloatCoords, y_max \in FloatCoords, sweep_step \in SweepSteps :
        (PlannerRunning /\ returned.args = [y_min |-> y_min, y_max |-> y_max,
                                            sweep_step |-> sweep_step])
            ~> (returned.fn = "get_sweep_waypoints: returned")

\* get_drone_status, line 100: the position a status request reads, in one
\* read of the attribute
PositionRead == current_position

\* C23: a status reader never sees a position whose components come from two
\* ticks: the position it can read changes only in a tick, and then to the
\* whole position the tick has read from the physics server.
C23_PublishedPositionIsOneRead ==
    [][PositionRead' # PositionRead
         => /\ \E t \in ThreadIds : TickStep(t)
            /\ PositionRead' = drone_pos]_vars
\* A tick has published the position of the drone at hover altitude off the
\* origin, replacing all three components of the position published before,
\* and the drone has moved on since.
C23_Witness ==
    /\ PositionRead[3] = HOVER_ALTITUDE
    /\ PositionRead[1] # 0
    /\ PositionRead # drone_pos
    /\ \E t \in ThreadIds : At(t, "loop")

\* C24: the waypoint sequence is immutable once generated: no tick changes
\* the coordinates of any of its elements, visited ones included.
C24_TicksLeaveWaypointsAlone ==
    [][\A t \in ThreadIds :
          TickStep(t) => threads'[t].waypoints = threads[t].waypoints]_vars

\* What a tick of a thread with locals th does to the virtual reference,
\* leaving the locals th2: goal and dist_to_goal are those of lines 349-351 at
\* the start of the tick.
GoalOf(th) == th.waypoints[th.current_wp_idx + 1]
AxisAligned(v) == Cardinality({i \in 1..3 : v[i] # 0}) = 1
ReferenceUpdated(th, th2) ==
    LET vector_to_goal == VSub(GoalOf(th), th.virtual_pos)
    IN  IF th.is_waiting
        THEN /\ th2.virtual_pos = th.virtual_pos
             /\ th2.target_vel = Zeros3
        ELSE IF NormSq(vector_to_goal) < ARRIVE_TOL * ARRIVE_TOL
        THEN /\ th2.virtual_pos = GoalOf(th)
             /\ th2.target_vel = Zeros3
             /\ th2.is_waiting
        ELSE /\ th2.virtual_pos = VAdd(th.virtual_pos, VScale(th2.target_vel, CTRL_TIMESTEP))
             /\ \A i \in 1..3 : /\ th2.target_vel[i] * Sign(vector_to_goal[i]) >= 0
                                /\ vector_to_goal[i] = 0 => th2.target_vel[i] = 0
             /\ AxisAligned(vector_to_goal)
                   => NormSq(th2.target_vel) = CRUISE_SPEED * CRUISE_SPEED

PhysicsStepBy(t) == At(t, "step") /\ threads'[t].sim_i = threads[t].sim_i + 1
TickCompleted(t) == At(t, "step") /\ threads'[t].pc = "loop"

\* C25: every tick computes its forces once and performs exactly SIM_STEPS
\* physics steps, each under the forces of that tick and no other: a physics
\* step of a tick finds applied the forces of its tick alone, and a tick is
\* over after its SIM_STEPS-th step and no earlier.
C25_StepsUseTheirTicksForces ==
    [][\A t \in ThreadIds :
          /\ PhysicsStepBy(t) => external_forces = {Forces(t)}
          /\ TickCompleted(t) => threads'[t].sim_i = SIM_STEPS
          /\ (PhysicsStepBy(t) /\ threads'[t].sim_i = SIM_STEPS) => TickCompleted(t)]_vars

\* A tick of thread t, and the first tick of its mission.
ControlTickBy(t) == At(t, "tick") /\ threads'[t].pc = "loop"
FirstTick(t) == threads[t].sim_i = 0

\* C29: the controller a mission's first tick works with has zero position
\* integral, zero attitude integral, zero last attitude and tick counter 0,
\* whatever the missions before it have left in theirs, and every
\* computeControl call raises the tick counter by exactly 1.
C29_ControllerResetPerMission ==
    [][\A t \in ThreadIds :
          ControlTickBy(t) =>
              /\ threads'[t].ctrl.control_counter = threads[t].ctrl.control_counter + 1
              /\ FirstTick(t) =>
                    /\ threads[t].ctrl.integral_pos_e = <<0, 0, 0>>
                    /\ threads[t].ctrl.integral_rpy_e = <<0, 0, 0>>
                    /\ threads[t].ctrl.last_rpy = <<0, 0, 0>>
                    /\ threads[t].ctrl.control_counter = 0]_vars
\* An earlier mission has been flown to its end, and the mission after it
\* has made its first tick and counted it 1.
C29_Witness ==
    /\ Len(threads) = 2
    /\ threads[1].outcome = "completed"
    /\ threads[2].pc = "loop"
    /\ threads[2].sim_i = SIM_STEPS
    /\ threads[2].ctrl.control_counter = 1

\* C31: a mission during which no abort was requested never enters
\* 'returning_home' and never ends 'aborted': a task that has latched an abort
\* or has set the outcome 'aborted' is one since whose start an abort request
\* was accepted.
C31_AbortStaysInItsMission ==
    \A t \in ThreadIds :
        (threads[t].abort_initiated \/ threads[t].outcome = "aborted")
            => threads[t].abort_requested

\* The statuses with which a mission task ends (lines 395, 398, 408).
TerminalStatuses == {"completed", "aborted", "error"}

\* C32: once the mission task has set a terminal status, the published status
\* keeps that value until the next successful deploy sets 'deploying',
\* whatever pause and abort requests arrive meanwhile.
C32_TerminalStatusStays ==
    [][(status \in TerminalStatuses)
          => (status' = status \/ status' = "deploying")]_vars

\* C33: whenever no mission is running (is_running is false and no mission
\* thread is left) the paused flag is false, so a mission never starts paused.
C33_IdleMeansUnpaused ==
    (~is_running /\ \A t \in ThreadIds : ~Alive(t)) => ~is_paused

\* No stall_drone handler is between its check and its last write.
NoStallInHand == \A stage \in StallStages : req.stall[stage] = 0

\* C34: while a mission is running (is_running is true and its task is in the
\* tick loop) and no pause request is half served, the published status is
\* 'stalled' if and only if the paused flag is true.
C34_StalledIffPaused ==
    (is_running /\ NoStallInHand /\ \E t \in ThreadIds : InMission(t))
        => (status = "stalled" <=> is_paused)

\* C35: while a mission task is in its tick loop (total_waypoints has been
\* published), total_waypoints is the length of the waypoint sequence the
\* task is following, and the published current_waypoint is below it.
C35_TotalIsLengthOfActiveSequence ==
    \A t \in ThreadIds :
        InMission(t) => /\ total_waypoints = Len(threads[t].waypoints)
                        /\ current_waypoint < total_waypoints

\* Whether waypoint w lies over the rectangle of field f.
InsideField(w, f) ==
    /\ f.min_x <= w[1] /\ w[1] <= f.max_x
    /\ f.min_y <= w[2] /\ w[2] <= f.max_y

\* C36: every waypoint the planner places from the move to the field's min
\* corner up to the return to home lies inside the field rectangle, for every
\* field with min <= max and every sweep step > 0.
C36_SweepStaysInsideField ==
    PlannerApplied =>
        LET waypoints == returned.value
        IN  \A i \in 2..(Len(waypoints) - 2) :
               InsideField(waypoints[i], returned.args.field)

\* C37: in the AI-enabled mission loop no detection is recorded once an abort
\* has been consumed: a step that adds to a mission's list of detections is
\* taken by a task that has not latched an abort, before or by that step.
C37_NoDetectionAfterAbort ==
    [][\A t \in ThreadIds :
          Len(threads'[t].detections) > Len(threads[t].detections)
              => (~threads[t].abort_initiated /\ ~threads'[t].abort_initiated)]_vars
\* A mission with detection enabled has recorded a detection, has consumed
\* an abort, and has since made a tick on which the camera was read.
C37_Witness ==
    \E t \in ThreadIds :
        /\ threads[t].pc = "loop"
        /\ threads[t].ai_enabled
        /\ threads[t].abort_initiated
        /\ threads[t].detections # <<>>
        /\ Len(threads[t].detections) < MaxDetections
        /\ threads[t].camera_frame_counter % CAMERA_EVERY = 0
        /\ threads[t].camera_frame_counter >
              threads[t].detections[Len(threads[t].detections)].frame

====
